---------------------------- MODULE Spec2Model ----------------------------
(***************************************************************************)
(* Model of the core of iroh-bitswap: the Query Manager (query.rs) and the *)
(* Peer Table (the Bitswap behaviour, behaviour.rs).  The two components   *)
(* share no state; each has its own variables and its own specification.   *)
(***************************************************************************)
EXTENDS Integers, Sequences, FiniteSets, TLC

(***************************************************************************)
(* Bounds of the model and program constants.                              *)
(***************************************************************************)
\* number of queries the host creates in one behaviour (want, send, send_have,
\* find_providers); the Cancel queries made from them come on top
MaxQueries == 2
\* width of the QueryId counter (usize), scaled down
IdModulus == 8
\* query.rs:214, providers.len() >= 40
FIND_PROVIDERS_SATURATION == 40
\* behaviour.rs:29
MAX_PROVIDERS == 10
\* block payloads and Have announcements pending in one peer's message
MaxPayload == 1
\* upward events queued in the Peer Table
MaxEvents == 1
\* upward events queued where their order is looked at: one inbound message
\* with an entry of every kind queues five, and one event of the next message
MaxQueued == 6

Peers == {1, 2}
Cids == {"c1", "c2"}
Priorities == {100}
Data == {"hello"}
Ids == 0 .. (IdModulus - 1)
None == [tag |-> "None"]
Nothing == [op |-> "none"]

VARIABLES
    queries,    \* QueryManager.queries: QueryId -> Query
    next_id,    \* QueryManager.next_id
    last,       \* what the last Query Manager call returned (Nothing: no value)
    reported,   \* how often each QueryId has been reported as completed
    cancelled,  \* the QueryIds of the queries that cancel has removed
    attached,   \* the (QueryId, peer) pairs of the registered queries that poll_peer
                \* has put into a message for the peer
    known_peers,    \* Bitswap.known_peers: PeerId -> PeerState
    events,         \* Bitswap.events: the queue of events to report
    plast,          \* what the last poll returned, or the name of the last inject/cancel call
    dialed          \* the peers with a Dial returned by poll and not resolved yet

qmvars == <<queries, next_id, last, reported, cancelled, attached>>
ptvars == <<known_peers, events, plast, dialed>>
vars ==
    <<queries, next_id, last, reported, cancelled, attached, known_peers, events, plast,
      dialed>>

(***************************************************************************)
(* message.rs is not part of the sources: BitswapMessage and its Wantlist  *)
(* follow the data model of the specification (section 3, 4.1).            *)
(***************************************************************************)
EmptyMsg == [wantlist |-> {}, blocks |-> <<>>, presences |-> {}]

MsgIsEmpty(m) == m.wantlist = {} /\ m.blocks = <<>> /\ m.presences = {}

WlWithout(wl, cid) == {e \in wl : e.cid # cid}

\* the entry is added to what the wantlist holds for the cid
WlWantBlock_keep(wl, cid, priority) ==
    wl \cup {[cid |-> cid, kind |-> "WantBlock", priority |-> priority]}

\* want_block of the wantlist: the entry of the cid is set
WlWantBlock(wl, cid, priority) ==
    WlWithout(wl, cid) \cup {[cid |-> cid, kind |-> "WantBlock", priority |-> priority]}

WlWantHaveBlock(wl, cid, priority) ==
    WlWithout(wl, cid) \cup {[cid |-> cid, kind |-> "WantHave", priority |-> priority]}

WlCancelBlock(wl, cid) ==
    WlWithout(wl, cid) \cup {[cid |-> cid, kind |-> "Cancel", priority |-> 0]}

WlRemoveBlock(wl, cid) ==
    {e \in wl : ~(e.cid = cid /\ e.kind \in {"WantBlock", "WantHave"})}

WlRemoveWantBlock(wl, cid) ==
    {e \in wl : ~(e.cid = cid /\ e.kind \in {"WantBlock", "WantHave"})}

MsgAddBlock(m, block) == [m EXCEPT !.blocks = Append(@, block)]

MsgAddBlockPresence(m, bp) == [m EXCEPT !.presences = @ \cup {bp}]

Have(cid) == [cid |-> cid, kind |-> "Have"]
DontHave(cid) == [cid |-> cid, kind |-> "DontHave"]

(***************************************************************************)
(* Query Manager: query.rs                                                 *)
(***************************************************************************)
New == [tag |-> "New"]
Sent(S) == [tag |-> "Sent", set |-> S]

IsSent(q) == q.state.tag = "Sent"
SentSet(q) == IF IsSent(q) THEN q.state.set ELSE {}

WantQ(cid, priority, providers) ==
    [kind |-> "Want", providers |-> providers, cid |-> cid,
     priority |-> priority, state |-> New]

FindProvidersQ(cid, priority, peers) ==
    [kind |-> "FindProviders", cid |-> cid, peers |-> peers, providers |-> {},
     state |-> New, priority |-> priority]

CancelQ(providers, cid) ==
    [kind |-> "Cancel", providers |-> providers, cid |-> cid, state |-> New]

SendQ(receiver, cid, data) ==
    [kind |-> "Send", receiver |-> receiver,
     block |-> [cid |-> cid, data |-> data], state |-> New]

SendHaveQ(receiver, cid) ==
    [kind |-> "SendHave", receiver |-> receiver, cid |-> cid, state |-> New]

\* the CID a query is about
QCid(q) == IF q.kind = "Send" THEN q.block.cid ELSE q.cid

Restrict(f, S) == [x \in S |-> f[x]]

\* AHashMap::insert: an existing entry under the same key is replaced
Insert(qs, id, q) == [i \in (DOMAIN qs) \cup {id} |-> IF i = id THEN q ELSE qs[i]]

\* the counter is not advanced
NextId_stuck(id) == id

\* self.next_id.wrapping_add(1)
NextId(id) == (id + 1) % IdModulus

contains_unused_provider(q, peer) ==
    CASE q.kind \in {"Want", "Cancel"} -> peer \in q.providers
      [] q.kind = "FindProviders" -> peer \in q.peers
      [] OTHER -> q.receiver = peer

contains_provider(q, peer) ==
    \/ contains_unused_provider(q, peer)
    \/ (IsSent(q) /\ peer \in q.state.set)

InitQM ==
    /\ queries = [i \in {} |-> None]
    /\ next_id = 0
    /\ last = Nothing
    /\ reported = [i \in Ids |-> 0]
    /\ cancelled = {}
    /\ attached = {}

\* the pairs recorded after a step: those of the queries still registered, less
\* those of the ids the step has allocated, and the pairs the step has attached
Track(fresh, new) ==
    {a \in attached : a[1] \in (DOMAIN queries') \ fresh} \cup new

\* new_query(query): the id allocated, the registry and the counter afterwards
new_query(q) ==
    /\ queries' = Insert(queries, next_id, q)
    /\ next_id' = NextId(next_id)
    /\ last' = [op |-> "new_query", ret |-> next_id]
    /\ attached' = Track({next_id}, {})
    /\ UNCHANGED <<reported, cancelled>>
    /\ UNCHANGED ptvars

want(cid, priority, providers) == new_query(WantQ(cid, priority, providers))

send(receiver, cid, data) == new_query(SendQ(receiver, cid, data))

send_have(receiver, cid) == new_query(SendHaveQ(receiver, cid))

find_providers(cid, priority, peers) == new_query(FindProvidersQ(cid, priority, peers))


\* the orders in which a hash map may visit the entries S
Orders(S) ==
    {f \in [1 .. Cardinality(S) -> S] : \A i, j \in DOMAIN f : f[i] = f[j] => i = j}

RECURSIVE InsertAll(_, _, _)
\* new_query for each query of the sequence qseq, ids allocated from id on
InsertAll(qs, id, qseq) ==
    IF qseq = << >> THEN qs
    ELSE InsertAll(Insert(qs, id, Head(qseq)), NextId(id), Tail(qseq))

RECURSIVE AddN(_, _)
AddN(id, n) == IF n = 0 THEN id ELSE AddN(NextId(id), n - 1)

\* the Want queries a call for cid removes
WantsOf(cid) == {i \in DOMAIN queries : queries[i].kind = "Want" /\ queries[i].cid = cid}

\* only the Wants that have been sent are removed
cancel_sent_only(cid) ==
    LET sentOnes == {i \in WantsOf(cid) : IsSent(queries[i])}
        kept == Restrict(queries, (DOMAIN queries) \ sentOnes)
    IN  /\ cancelled' = cancelled \cup WantsOf(cid)
        /\ IF sentOnes = {}
           THEN /\ queries' = kept
                /\ last' = Nothing
                /\ attached' = Track({}, {})
                /\ UNCHANGED <<next_id, reported, ptvars>>
           ELSE /\ \E w \in sentOnes :
                       queries' = Insert(kept, next_id, CancelQ(queries[w].state.set, cid))
                /\ next_id' = NextId(next_id)
                /\ last' = [op |-> "cancel", ret |-> [tag |-> "Some", id |-> next_id]]
                /\ attached' = Track({next_id}, {})
                /\ UNCHANGED <<reported, ptvars>>

\* cancel(cid): every Want on cid is removed; `cancel` keeps the Sent set of the
\* Want the retain closure visited last, and one Cancel is created from it
cancel(cid) ==
    LET removed == WantsOf(cid)
        sentOnes == {i \in removed : IsSent(queries[i])}
        kept == Restrict(queries, (DOMAIN queries) \ removed)
    IN  IF sentOnes = {}
        THEN /\ queries' = kept
             /\ last' = Nothing
             /\ cancelled' = cancelled \cup removed
             /\ attached' = Track({}, {})
             /\ UNCHANGED <<next_id, reported, ptvars>>
        ELSE /\ \E w \in sentOnes :
                    queries' = Insert(kept, next_id, CancelQ(queries[w].state.set, cid))
             /\ next_id' = NextId(next_id)
             /\ last' = [op |-> "cancel", ret |-> [tag |-> "Some", id |-> next_id]]
             /\ cancelled' = cancelled \cup removed
             /\ attached' = Track({next_id}, {})
             /\ UNCHANGED <<reported, ptvars>>

\* unused_providers: one element per (removed Want, unused provider of it)
UnusedProviders(removed) ==
    LET P == UNION {queries[i].providers : i \in removed}
    IN  [p \in P |-> Cardinality({i \in removed : p \in queries[i].providers})]

\* the sender is not taken out
CancelTargets_with_sender(sent, sender) == sent

\* the providers of the follow-up Cancel: providers.clone(), providers.remove(sender)
CancelTargets(sent, sender) == sent \ {sender}

process_block(sender, block) ==
    LET removed == WantsOf(block.cid)
        withCancel == {i \in removed : IsSent(queries[i])
                                       /\ CancelTargets(queries[i].state.set, sender) # {}}
        kept == Restrict(queries, (DOMAIN queries) \ removed)
    IN  /\ \E order \in Orders(withCancel) :
             LET cancels == [k \in DOMAIN order |->
                                CancelQ(CancelTargets(queries[order[k]].state.set, sender),
                                        block.cid)]
             IN  queries' = InsertAll(kept, next_id, cancels)
        /\ next_id' = AddN(next_id, Cardinality(withCancel))
        /\ reported' = [i \in Ids |-> IF i \in removed THEN reported[i] + 1 ELSE reported[i]]
        /\ last' = IF removed = {} THEN Nothing
                    ELSE [op |-> "process_block",
                          unused_providers |-> UnusedProviders(removed),
                          query_ids |-> removed]
        /\ attached' = Track({AddN(next_id, k) : k \in 0 .. (Cardinality(withCancel) - 1)}, {})
        /\ UNCHANGED <<cancelled, ptvars>>

\* the kind of the presence is not looked at
PresenceMatches_any_kind(q, bp) == q.kind = "FindProviders" /\ bp.cid = q.cid

\* process_block_presence(peer, bp)
PresenceMatches(q, bp) == q.kind = "FindProviders" /\ bp.kind = "Have" /\ bp.cid = q.cid

\* the bound compared with > for >=
PresenceCompletes_late(q, peer) ==
    q.peers = {} \/ Cardinality(q.providers \cup {peer}) > FIND_PROVIDERS_SATURATION

PresenceCompletes(q, peer) ==
    q.peers = {} \/ Cardinality(q.providers \cup {peer}) >= FIND_PROVIDERS_SATURATION

process_block_presence(peer, bp) ==
    LET hit == {i \in DOMAIN queries : PresenceMatches(queries[i], bp)}
        done == {i \in hit : PresenceCompletes(queries[i], peer)}
    IN  /\ queries' = [i \in (DOMAIN queries) \ done |->
                          IF i \in hit
                          THEN [queries[i] EXCEPT !.providers = @ \cup {peer}]
                          ELSE queries[i]]
        /\ reported' = [i \in Ids |-> IF i \in done THEN reported[i] + 1 ELSE reported[i]]
        /\ last' = IF done = {} THEN Nothing
                    ELSE [op |-> "process_block_presence",
                          results |-> {<<i, queries[i].providers \cup {peer}>> : i \in done}]
        /\ attached' = Track({}, {})
        /\ UNCHANGED <<next_id, cancelled, ptvars>>

\* the peer that is dropped from the Sent set is to be contacted again
DropSent_requeue(q, peer) ==
    IF contains_provider(q, peer) /\ IsSent(q)
    THEN IF peer \notin q.state.set THEN q
         ELSE CASE q.kind \in {"Want", "Cancel"} ->
                     [q EXCEPT !.state = Sent(q.state.set \ {peer}),
                               !.providers = @ \cup {peer}]
                [] q.kind = "FindProviders" ->
                     [q EXCEPT !.state = Sent(q.state.set \ {peer}),
                               !.peers = @ \cup {peer}]
                [] OTHER -> [q EXCEPT !.state = Sent(q.state.set \ {peer})]
    ELSE q

\* only the queries that have the peer left to contact are looked at
DropSent_unused_only(q, peer) ==
    IF contains_unused_provider(q, peer) /\ IsSent(q)
    THEN [q EXCEPT !.state = Sent(q.state.set \ {peer})]
    ELSE q

\* disconnected(peer_id): peer_id leaves the Sent set of every query that has it
DropSent(q, peer) ==
    IF contains_provider(q, peer) /\ IsSent(q)
    THEN [q EXCEPT !.state = Sent(q.state.set \ {peer})]
    ELSE q

disconnected(peer) ==
    /\ queries' = [i \in DOMAIN queries |-> DropSent(queries[i], peer)]
    /\ last' = Nothing
    /\ UNCHANGED <<next_id, reported, cancelled, attached, ptvars>>

dial_failure(peer) ==
    /\ queries' = [i \in DOMAIN queries |-> DropSent(queries[i], peer)]
    /\ last' = Nothing
    /\ UNCHANGED <<next_id, reported, cancelled, attached, ptvars>>

\* the providers left to contact are not looked at
IsFinished_sent_only(q) == IsSent(q) /\ q.state.set = {}

\* a query that has not been sent counts too
IsFinished_new_too(q) ==
    CASE q.kind \in {"Want", "Cancel"} -> q.providers = {} /\ SentSet(q) = {}
      [] q.kind = "FindProviders" -> q.peers = {} /\ SentSet(q) = {}
      [] OTHER -> IsSent(q) /\ q.state.set = {}

\* next_finished_query: the queries its loop may stop at
IsFinished(q) ==
    /\ IsSent(q)
    /\ q.state.set = {}
    /\ CASE q.kind \in {"Want", "Cancel"} -> q.providers = {}
         [] q.kind = "FindProviders" -> q.peers = {}
         [] OTHER -> TRUE

Finished == {i \in DOMAIN queries : IsFinished(queries[i])}

\* poll_all(): the event carries the result kind and the error, not the id
poll_all ==
    IF Finished = {}
    THEN /\ last' = Nothing
         /\ UNCHANGED <<queries, next_id, reported, cancelled, attached, ptvars>>
    ELSE \E i \in Finished :
            /\ queries' = Restrict(queries, (DOMAIN queries) \ {i})
            /\ reported' = [reported EXCEPT ![i] = @ + 1]
            /\ last' = [op |-> "poll_all",
                        ret |-> [tag |-> "OutboundQueryCompleted", kind |-> queries[i].kind,
                                 result |-> "Err", error |-> "Timeout"],
                        id |-> i]
            /\ attached' = Track({}, {})
            /\ UNCHANGED <<next_id, cancelled, ptvars>>

\* a query that has been sent before keeps its Sent set
MarkSent_first_only(state, peer) ==
    IF state.tag = "New" THEN Sent({peer}) ELSE state

\* poll_peer(peer_id): State::New => Sent({peer}), Sent(s) => Sent(s + {peer})
MarkSent(state, peer) ==
    IF state.tag = "New" THEN Sent({peer}) ELSE Sent(state.set \cup {peer})

\* a Send or SendHave that has been sent is counted like the queries attached
Attach_count_finished(acc, id, peer) ==
    LET q == acc.qs[id]
    IN  CASE q.kind = "Want" ->
               [acc EXCEPT
                  !.msg.wantlist = WlWantBlock(@, q.cid, q.priority),
                  !.qs[id].providers = @ \ {peer},
                  !.qs[id].state = MarkSent(@, peer),
                  !.num = @ + 1]
          [] q.kind = "FindProviders" ->
               [acc EXCEPT
                  !.msg.wantlist = WlWantHaveBlock(@, q.cid, q.priority),
                  !.qs[id].peers = @ \ {peer},
                  !.qs[id].state = MarkSent(@, peer),
                  !.num = @ + 1]
          [] q.kind = "Cancel" ->
               [acc EXCEPT
                  !.msg.wantlist = WlCancelBlock(@, q.cid),
                  !.qs[id].providers = @ \ {peer},
                  !.qs[id].state = MarkSent(@, peer),
                  !.num = @ + 1]
          [] q.kind = "Send" ->
               IF q.state.tag = "New"
               THEN [acc EXCEPT
                       !.msg = MsgAddBlock(@, q.block),
                       !.qs[id].state = Sent({q.receiver}),
                       !.num = @ + 1]
               ELSE [acc EXCEPT !.fin = @ \cup {id}, !.num = @ + 1]
          [] q.kind = "SendHave" ->
               IF q.state.tag = "New"
               THEN [acc EXCEPT
                       !.msg = MsgAddBlockPresence(@, Have(q.cid)),
                       !.qs[id].state = Sent({q.receiver}),
                       !.num = @ + 1]
               ELSE [acc EXCEPT !.fin = @ \cup {id}, !.num = @ + 1]

\* the peer stays among the candidates of a Want, a FindProviders or a Cancel
Attach_keep_candidate(acc, id, peer) ==
    LET q == acc.qs[id]
    IN  CASE q.kind = "Want" ->
               [acc EXCEPT
                  !.msg.wantlist = WlWantBlock(@, q.cid, q.priority),
                  !.qs[id].state = MarkSent(@, peer),
                  !.num = @ + 1]
          [] q.kind = "FindProviders" ->
               [acc EXCEPT
                  !.msg.wantlist = WlWantHaveBlock(@, q.cid, q.priority),
                  !.qs[id].state = MarkSent(@, peer),
                  !.num = @ + 1]
          [] q.kind = "Cancel" ->
               [acc EXCEPT
                  !.msg.wantlist = WlCancelBlock(@, q.cid),
                  !.qs[id].state = MarkSent(@, peer),
                  !.num = @ + 1]
          [] q.kind = "Send" ->
               IF q.state.tag = "New"
               THEN [acc EXCEPT
                       !.msg = MsgAddBlock(@, q.block),
                       !.qs[id].state = Sent({q.receiver}),
                       !.num = @ + 1]
               ELSE [acc EXCEPT !.fin = @ \cup {id}]
          [] q.kind = "SendHave" ->
               IF q.state.tag = "New"
               THEN [acc EXCEPT
                       !.msg = MsgAddBlockPresence(@, Have(q.cid)),
                       !.qs[id].state = Sent({q.receiver}),
                       !.num = @ + 1]
               ELSE [acc EXCEPT !.fin = @ \cup {id}]

\* one round of the loop of poll_peer, on the query id; acc holds the registry, the
\* message built so far, num_queries and finished_queries
Attach(acc, id, peer) ==
    LET q == acc.qs[id]
    IN  CASE q.kind = "Want" ->
               [acc EXCEPT
                  !.msg.wantlist = WlWantBlock(@, q.cid, q.priority),
                  !.qs[id].providers = @ \ {peer},
                  !.qs[id].state = MarkSent(@, peer),
                  !.num = @ + 1]
          [] q.kind = "FindProviders" ->
               [acc EXCEPT
                  !.msg.wantlist = WlWantHaveBlock(@, q.cid, q.priority),
                  !.qs[id].peers = @ \ {peer},
                  !.qs[id].state = MarkSent(@, peer),
                  !.num = @ + 1]
          [] q.kind = "Cancel" ->
               [acc EXCEPT
                  !.msg.wantlist = WlCancelBlock(@, q.cid),
                  !.qs[id].providers = @ \ {peer},
                  !.qs[id].state = MarkSent(@, peer),
                  !.num = @ + 1]
          [] q.kind = "Send" ->
               IF q.state.tag = "New"
               THEN [acc EXCEPT
                       !.msg = MsgAddBlock(@, q.block),
                       !.qs[id].state = Sent({q.receiver}),
                       !.num = @ + 1]
               ELSE [acc EXCEPT !.fin = @ \cup {id}]
          [] q.kind = "SendHave" ->
               IF q.state.tag = "New"
               THEN [acc EXCEPT
                       !.msg = MsgAddBlockPresence(@, Have(q.cid)),
                       !.qs[id].state = Sent({q.receiver}),
                       !.num = @ + 1]
               ELSE [acc EXCEPT !.fin = @ \cup {id}]

RECURSIVE AttachAll(_, _, _)
AttachAll(acc, order, peer) ==
    IF order = << >> THEN acc
    ELSE AttachAll(Attach(acc, Head(order), peer), Tail(order), peer)

Unused(peer) == {i \in DOMAIN queries : contains_unused_provider(queries[i], peer)}

poll_peer(peer) ==
    IF DOMAIN queries = {}
    THEN /\ last' = Nothing
         /\ UNCHANGED <<queries, next_id, reported, cancelled, attached, ptvars>>
    ELSE \E order \in Orders(Unused(peer)) :
            LET r == AttachAll([qs |-> queries, msg |-> EmptyMsg, num |-> 0, fin |-> {}],
                               order, peer)
            IN  /\ queries' = Restrict(r.qs, (DOMAIN r.qs) \ r.fin)
                /\ last' = IF r.num > 0 /\ ~MsgIsEmpty(r.msg)
                            THEN [op |-> "poll_peer",
                                  ret |-> [tag |-> "NotifyHandler", peer_id |-> peer,
                                           event |-> r.msg],
                                  num_queries |-> r.num]
                            ELSE IF r.num > 0 THEN [op |-> "poll_peer", ret |-> None,
                                                    diag |-> "queries, but message is empty"]
                            ELSE Nothing
                /\ attached' = Track({}, {<<i, peer>> : i \in Unused(peer) \ r.fin})
                /\ UNCHANGED <<next_id, reported, cancelled, ptvars>>

(***************************************************************************)
(* Peer Table: behaviour.rs                                                *)
(***************************************************************************)
DefaultPeerState == [conn |-> "Unknown", msg |-> EmptyMsg]

\* HashMap::insert
Put(kp, p, st) == [x \in (DOMAIN kp) \cup {p} |-> IF x = p THEN st ELSE kp[x]]

\* HashMap::entry(p).or_default()
OrDefault(kp, p) == IF p \in DOMAIN kp THEN kp ELSE Put(kp, p, DefaultPeerState)

is_connected(st) == st.conn = "Connected"

is_empty(st) == MsgIsEmpty(st.msg)

\* a peer that is being dialed counts too
needs_connection_while_dialing(st) == ~is_empty(st) /\ st.conn # "Connected"

needs_connection(st) == ~is_empty(st) /\ st.conn \in {"Disconnected", "Unknown"}

\* the message is cloned, not taken
send_message_clone(st) == st

\* send_message(): std::mem::take(&mut self.msg)
send_message(st) == [st EXCEPT !.msg = EmptyMsg]

HasWant(st, cid) ==
    \E e \in st.msg.wantlist : e.cid = cid /\ e.kind \in {"WantBlock", "WantHave"}

InitPT ==
    /\ known_peers = [p \in {} |-> DefaultPeerState]
    /\ events = << >>
    /\ plast = Nothing
    /\ dialed = {}

Init == InitQM /\ InitPT

add_peer(peer) ==
    /\ known_peers' = Put(known_peers, peer, DefaultPeerState)
    /\ plast' = Nothing
    /\ UNCHANGED <<events, dialed, qmvars>>

want_block(cid, priority, providers) ==
    /\ known_peers' =
          [p \in (DOMAIN known_peers) \cup providers |->
              IF p \in providers
              THEN [OrDefault(known_peers, p)[p] EXCEPT
                       !.msg.wantlist = WlWantBlock(@, cid, priority)]
              ELSE known_peers[p]]
    /\ plast' = Nothing
    /\ UNCHANGED <<events, dialed, qmvars>>

send_block(peer_id, cid, data) ==
    /\ known_peers' =
          [OrDefault(known_peers, peer_id) EXCEPT
              ![peer_id].msg = MsgAddBlock(@, [cid |-> cid, data |-> data])]
    /\ plast' = Nothing
    /\ UNCHANGED <<events, dialed, qmvars>>

send_have_block(peer_id, cid) ==
    /\ known_peers' =
          [OrDefault(known_peers, peer_id) EXCEPT
              ![peer_id].msg = MsgAddBlockPresence(@, Have(cid))]
    /\ plast' = Nothing
    /\ UNCHANGED <<events, dialed, qmvars>>

\* the peers with an established connection only
connected_peers_strict == {p \in DOMAIN known_peers : known_peers[p].conn = "Connected"}

connected_peers ==
    {p \in DOMAIN known_peers : known_peers[p].conn \in {"Connected", "Unknown"}}

Min(a, b) == IF a <= b THEN a ELSE b

\* find_providers(cid, priority): take(MAX_PROVIDERS) of the map's iteration
pt_find_providers(cid, priority) ==
    /\ \E peers \in SUBSET connected_peers :
          /\ Cardinality(peers) = Min(MAX_PROVIDERS, Cardinality(connected_peers))
          /\ known_peers' =
                [p \in DOMAIN known_peers |->
                    IF p \in peers
                    THEN [known_peers[p] EXCEPT
                             !.msg.wantlist = WlWantHaveBlock(@, cid, priority)]
                    ELSE known_peers[p]]
          /\ plast' = IF peers = connected_peers THEN Nothing
                      ELSE [op |-> "find_providers", skipped |-> connected_peers \ peers]
    /\ UNCHANGED <<events, dialed, qmvars>>

\* only the connected peers are told
cancel_block_connected(cid) ==
    /\ known_peers' =
          [p \in DOMAIN known_peers |->
              IF known_peers[p].conn = "Connected"
              THEN [known_peers[p] EXCEPT !.msg.wantlist = WlCancelBlock(@, cid)]
              ELSE known_peers[p]]
    /\ plast' = [op |-> "cancel_block",
                 dropped |-> {p \in DOMAIN known_peers : HasWant(known_peers[p], cid)}]
    /\ UNCHANGED <<events, dialed, qmvars>>

cancel_block(cid) ==
    /\ known_peers' =
          [p \in DOMAIN known_peers |->
              [known_peers[p] EXCEPT !.msg.wantlist = WlCancelBlock(@, cid)]]
    /\ plast' = [op |-> "cancel_block",
                 dropped |-> {p \in DOMAIN known_peers : HasWant(known_peers[p], cid)}]
    /\ UNCHANGED <<events, dialed, qmvars>>

\* a cancel entry is recorded as cancel_block does
cancel_want_block_on_wire(cid) ==
    /\ known_peers' =
          [p \in DOMAIN known_peers |->
              [known_peers[p] EXCEPT !.msg.wantlist = WlCancelBlock(@, cid)]]
    /\ plast' = IF \A p \in DOMAIN known_peers : ~HasWant(known_peers[p], cid)
                THEN Nothing
                ELSE [op |-> "cancel_want_block",
                      dropped |-> {p \in DOMAIN known_peers : HasWant(known_peers[p], cid)}]
    /\ UNCHANGED <<events, dialed, qmvars>>

cancel_want_block(cid) ==
    /\ known_peers' =
          [p \in DOMAIN known_peers |->
              [known_peers[p] EXCEPT !.msg.wantlist = WlRemoveWantBlock(@, cid)]]
    /\ plast' = IF \A p \in DOMAIN known_peers : ~HasWant(known_peers[p], cid)
                THEN Nothing
                ELSE [op |-> "cancel_want_block",
                      dropped |-> {p \in DOMAIN known_peers : HasWant(known_peers[p], cid)}]
    /\ UNCHANGED <<events, dialed, qmvars>>

inject_connection_established(peer_id) ==
    /\ known_peers' = [OrDefault(known_peers, peer_id) EXCEPT ![peer_id].conn = "Connected"]
    /\ plast' = Nothing
    /\ dialed' = dialed \ {peer_id}
    /\ UNCHANGED <<events, qmvars>>

\* what inject_connection_closed leaves in plast: the peer, if it is known, has
\* no connection left and has a message pending
Closed(peer_id, remaining_established) ==
    IF remaining_established = 0 /\ peer_id \in DOMAIN known_peers
       /\ ~MsgIsEmpty(known_peers[peer_id].msg)
    THEN [op |-> "inject_connection_closed", peer |-> peer_id]
    ELSE Nothing

\* the pending message goes with the connection
inject_connection_closed_drop(peer_id, remaining_established) ==
    /\ known_peers' =
          IF remaining_established = 0 /\ peer_id \in DOMAIN known_peers
          THEN [known_peers EXCEPT ![peer_id] = [conn |-> "Disconnected", msg |-> EmptyMsg]]
          ELSE known_peers
    /\ plast' = Closed(peer_id, remaining_established)
    /\ UNCHANGED <<events, dialed, qmvars>>

inject_connection_closed(peer_id, remaining_established) ==
    /\ known_peers' =
          IF remaining_established = 0 /\ peer_id \in DOMAIN known_peers
          THEN [known_peers EXCEPT ![peer_id].conn = "Disconnected"]
          ELSE known_peers
    /\ plast' = Closed(peer_id, remaining_established)
    /\ UNCHANGED <<events, dialed, qmvars>>

\* the peer is forgotten whatever the error is
inject_dial_failure_forget(peer_id, error) ==
    /\ known_peers' =
          IF peer_id.tag = "None" THEN known_peers
          ELSE Restrict(known_peers, (DOMAIN known_peers) \ {peer_id.id})
    /\ plast' = IF peer_id.tag = "Some" /\ peer_id.id \in DOMAIN known_peers
                THEN [op |-> "inject_dial_failure", peer |-> peer_id.id, error |-> error,
                      was |-> known_peers[peer_id.id].conn,
                      pending |-> ~MsgIsEmpty(known_peers[peer_id.id].msg)]
                ELSE Nothing
    /\ dialed' = IF peer_id.tag = "None" THEN dialed ELSE dialed \ {peer_id.id}
    /\ UNCHANGED <<events, qmvars>>

\* the peer is kept for a retry whatever the error is
inject_dial_failure_keep(peer_id, error) ==
    /\ known_peers' =
          IF peer_id.tag = "None" THEN known_peers
          ELSE [OrDefault(known_peers, peer_id.id) EXCEPT ![peer_id.id].conn = "Disconnected"]
    /\ plast' = IF peer_id.tag = "Some" /\ peer_id.id \in DOMAIN known_peers
                THEN [op |-> "inject_dial_failure", peer |-> peer_id.id, error |-> error,
                      was |-> known_peers[peer_id.id].conn,
                      pending |-> ~MsgIsEmpty(known_peers[peer_id.id].msg)]
                ELSE Nothing
    /\ dialed' = IF peer_id.tag = "None" THEN dialed ELSE dialed \ {peer_id.id}
    /\ UNCHANGED <<events, qmvars>>

\* the wants that go with a forgotten peer are reported as failed
inject_dial_failure_report(peer_id, error) ==
    /\ known_peers' =
          IF peer_id.tag = "None" THEN known_peers
          ELSE IF error = "ConnectionLimit"
          THEN [OrDefault(known_peers, peer_id.id) EXCEPT ![peer_id.id].conn = "Disconnected"]
          ELSE Restrict(known_peers, (DOMAIN known_peers) \ {peer_id.id})
    /\ plast' = IF peer_id.tag = "Some" /\ peer_id.id \in DOMAIN known_peers
                THEN [op |-> "inject_dial_failure", peer |-> peer_id.id, error |-> error,
                      was |-> known_peers[peer_id.id].conn,
                      pending |-> ~MsgIsEmpty(known_peers[peer_id.id].msg)]
                ELSE Nothing
    /\ events' =
          IF peer_id.tag = "Some" /\ error # "ConnectionLimit"
             /\ peer_id.id \in DOMAIN known_peers
             /\ known_peers[peer_id.id].msg.wantlist # {}
          THEN Append(events, [tag |-> "OutboundQueryCompleted", kind |-> "Want",
                               result |-> "Err", error |-> "Timeout"])
          ELSE events
    /\ dialed' = IF peer_id.tag = "None" THEN dialed ELSE dialed \ {peer_id.id}
    /\ UNCHANGED qmvars

\* inject_dial_failure(peer_id: Option<PeerId>, error)
inject_dial_failure(peer_id, error) ==
    /\ known_peers' =
          IF peer_id.tag = "None" THEN known_peers
          ELSE IF error = "ConnectionLimit"
          THEN [OrDefault(known_peers, peer_id.id) EXCEPT ![peer_id.id].conn = "Disconnected"]
          ELSE Restrict(known_peers, (DOMAIN known_peers) \ {peer_id.id})
    /\ plast' = IF peer_id.tag = "Some" /\ peer_id.id \in DOMAIN known_peers
                THEN [op |-> "inject_dial_failure", peer |-> peer_id.id, error |-> error,
                      was |-> known_peers[peer_id.id].conn,
                      pending |-> ~MsgIsEmpty(known_peers[peer_id.id].msg)]
                ELSE Nothing
    /\ dialed' = IF peer_id.tag = "None" THEN dialed ELSE dialed \ {peer_id.id}
    /\ UNCHANGED <<events, qmvars>>

WantOk(sender, block) ==
    [tag |-> "OutboundQueryCompleted", kind |-> "Want", result |-> "Ok",
     sender |-> sender, cid |-> block.cid, data |-> block.data]

FindProvidersOk(cid, provider) ==
    [tag |-> "OutboundQueryCompleted", kind |-> "FindProviders", result |-> "Ok",
     cid |-> cid, provider |-> provider]

InboundRequest(kind, sender, e) ==
    IF kind = "Cancel"
    THEN [tag |-> "InboundRequest", kind |-> kind, sender |-> sender, cid |-> e.cid]
    ELSE [tag |-> "InboundRequest", kind |-> kind, sender |-> sender, cid |-> e.cid,
          priority |-> e.priority]

RECURSIVE InjectBlocks_sender_only(_, _, _)
\* the pending wants of the other peers are left alone
InjectBlocks_sender_only(st, peer_id, blocks) ==
    IF blocks = << >> THEN st
    ELSE LET block == Head(blocks)
             kp == [p \in DOMAIN st.kp |->
                      IF p = peer_id
                      THEN [st.kp[p] EXCEPT !.msg.wantlist = WlCancelBlock(@, block.cid)]
                      ELSE st.kp[p]]
         IN  InjectBlocks_sender_only(
                 [kp |-> kp, ev |-> Append(st.ev, WantOk(peer_id, block))],
                 peer_id, Tail(blocks))

RECURSIVE InjectBlocks_cancel_all(_, _, _)
\* a cancel is recorded for every peer
InjectBlocks_cancel_all(st, peer_id, blocks) ==
    IF blocks = << >> THEN st
    ELSE LET block == Head(blocks)
             kp == [p \in DOMAIN st.kp |->
                      [st.kp[p] EXCEPT !.msg.wantlist = WlCancelBlock(@, block.cid)]]
         IN  InjectBlocks_cancel_all(
                 [kp |-> kp, ev |-> Append(st.ev, WantOk(peer_id, block))],
                 peer_id, Tail(blocks))

RECURSIVE InjectBlocks(_, _, _)
\* while let Some(block) = message.pop_block(): st holds known_peers and events
InjectBlocks(st, peer_id, blocks) ==
    IF blocks = << >> THEN st
    ELSE LET block == Head(blocks)
             kp == [p \in DOMAIN st.kp |->
                      IF p = peer_id
                      THEN [st.kp[p] EXCEPT !.msg.wantlist = WlCancelBlock(@, block.cid)]
                      ELSE [st.kp[p] EXCEPT !.msg.wantlist = WlRemoveBlock(@, block.cid)]]
         IN  InjectBlocks([kp |-> kp, ev |-> Append(st.ev, WantOk(peer_id, block))],
                          peer_id, Tail(blocks))

RECURSIVE InjectPresences(_, _, _)
\* for bp in message.block_presences()
InjectPresences(st, peer_id, bps) ==
    IF bps = << >> THEN st
    ELSE LET bp == Head(bps)
             kp == [p \in DOMAIN st.kp |->
                      [st.kp[p] EXCEPT !.msg.wantlist = WlRemoveWantBlock(@, bp.cid)]]
         IN  InjectPresences([kp |-> kp,
                              ev |-> Append(st.ev, FindProvidersOk(bp.cid, peer_id))],
                             peer_id, Tail(bps))

RECURSIVE Requests(_, _, _)
\* the InboundRequest events of one kind, for the wantlist entries es
Requests(kind, peer_id, es) ==
    IF es = << >> THEN << >>
    ELSE <<InboundRequest(kind, peer_id, Head(es))>> \o Requests(kind, peer_id, Tail(es))

OfKind(wl, kind) == {e \in wl : e.kind = kind}

\* the events one inbound message queues
EventCount(message) ==
    IF message.tag = "Upgrade" THEN 0
    ELSE Len(message.msg.blocks) + Cardinality(message.msg.presences)
         + Cardinality(message.msg.wantlist)

\* the peers other than the sender with a want-block pending for a block of m
WantedElsewhere(peer_id, m) ==
    {q \in (DOMAIN known_peers) \ {peer_id} :
        \E k \in DOMAIN m.blocks : \E e \in known_peers[q].msg.wantlist :
            e.cid = m.blocks[k].cid /\ e.kind = "WantBlock"}

\* the requests of the peer are queued before the completions
inject_event_requests_first(peer_id, message) ==
    /\ IF message.tag = "Upgrade"
       THEN UNCHANGED <<known_peers, events>>
       ELSE \E bps \in Orders(message.msg.presences),
               ws \in Orders(OfKind(message.msg.wantlist, "WantBlock")),
               whs \in Orders(OfKind(message.msg.wantlist, "WantHave")),
               cs \in Orders(OfKind(message.msg.wantlist, "Cancel")) :
              LET st1 == InjectBlocks([kp |-> known_peers, ev |-> << >>], peer_id,
                                      message.msg.blocks)
                  st2 == InjectPresences(st1, peer_id, bps)
              IN  /\ known_peers' = st2.kp
                  /\ events' = events \o Requests("Want", peer_id, ws)
                                      \o Requests("WantHave", peer_id, whs)
                                      \o Requests("Cancel", peer_id, cs)
                                      \o st2.ev
    /\ plast' = IF message.tag = "Upgrade" \/ WantedElsewhere(peer_id, message.msg) = {}
                THEN Nothing
                ELSE [op |-> "inject_event", sender |-> peer_id,
                      dropped |-> WantedElsewhere(peer_id, message.msg)]
    /\ UNCHANGED <<dialed, qmvars>>

\* inject_event(peer_id, connection, message)
inject_event(peer_id, message) ==
    /\ IF message.tag = "Upgrade"
       THEN UNCHANGED <<known_peers, events>>
       ELSE \E bps \in Orders(message.msg.presences),
               ws \in Orders(OfKind(message.msg.wantlist, "WantBlock")),
               whs \in Orders(OfKind(message.msg.wantlist, "WantHave")),
               cs \in Orders(OfKind(message.msg.wantlist, "Cancel")) :
              LET st1 == InjectBlocks([kp |-> known_peers, ev |-> events], peer_id,
                                      message.msg.blocks)
                  st2 == InjectPresences(st1, peer_id, bps)
              IN  /\ known_peers' = st2.kp
                  /\ events' = st2.ev \o Requests("Want", peer_id, ws)
                                      \o Requests("WantHave", peer_id, whs)
                                      \o Requests("Cancel", peer_id, cs)
    /\ plast' = IF message.tag = "Upgrade" \/ WantedElsewhere(peer_id, message.msg) = {}
                THEN Nothing
                ELSE [op |-> "inject_event", sender |-> peer_id,
                      dropped |-> WantedElsewhere(peer_id, message.msg)]
    /\ UNCHANGED <<dialed, qmvars>>

\* poll(): a queued event, else a message for a connected peer, else a dial
poll ==
    /\ IF events # << >>
       THEN /\ events' = Tail(events)
            /\ plast' = [op |-> "poll", ret |-> [tag |-> "GenerateEvent", event |-> Head(events)]]
            /\ UNCHANGED known_peers
       ELSE IF \E p \in DOMAIN known_peers :
                  is_connected(known_peers[p]) /\ ~is_empty(known_peers[p])
       THEN \E p \in DOMAIN known_peers :
               /\ is_connected(known_peers[p]) /\ ~is_empty(known_peers[p])
               /\ known_peers' = [known_peers EXCEPT ![p] = send_message(@)]
               /\ plast' = [op |-> "poll",
                            ret |-> [tag |-> "NotifyHandler", peer_id |-> p,
                                     event |-> known_peers[p].msg]]
               /\ UNCHANGED events
       ELSE IF \E p \in DOMAIN known_peers : needs_connection(known_peers[p])
       THEN \E p \in DOMAIN known_peers :
               /\ needs_connection(known_peers[p])
               /\ known_peers' = [known_peers EXCEPT ![p].conn = "Dialing"]
               /\ plast' = [op |-> "poll", ret |-> [tag |-> "Dial", peer_id |-> p]]
               /\ UNCHANGED events
       ELSE /\ plast' = [op |-> "poll", ret |-> [tag |-> "Pending"]]
            /\ UNCHANGED <<known_peers, events>>
    /\ dialed' = IF plast'.ret.tag = "Dial" THEN dialed \cup {plast'.ret.peer_id} ELSE dialed
    /\ UNCHANGED qmvars

(***************************************************************************)
(* The Query Manager under every call sequence of its host (one CID).      *)
(***************************************************************************)
OneCid == {"c1"}
Blocks == {[cid |-> c, data |-> d] : c \in Cids, d \in Data}
Presences == {Have(c) : c \in Cids} \cup {DontHave(c) : c \in Cids}

Want ==
    next_id < MaxQueries
    /\ \E c \in OneCid, pr \in Priorities, ps \in SUBSET Peers : want(c, pr, ps)
Send == next_id < MaxQueries /\ \E p \in Peers, c \in OneCid, d \in Data : send(p, c, d)
SendHave == next_id < MaxQueries /\ \E p \in Peers, c \in OneCid : send_have(p, c)
FindProviders ==
    next_id < MaxQueries
    /\ \E c \in OneCid, pr \in Priorities, ps \in SUBSET Peers : find_providers(c, pr, ps)
Cancel == \E c \in Cids : cancel(c)
ProcessBlock == \E p \in Peers, b \in Blocks : process_block(p, b)
ProcessBlockPresence == \E p \in Peers, bp \in Presences : process_block_presence(p, bp)
Disconnected == \E p \in Peers : disconnected(p)
DialFailure == \E p \in Peers : dial_failure(p)
PollAll == poll_all
PollPeer == \E p \in Peers : poll_peer(p)

Next ==
    \/ Want
    \/ Send
    \/ SendHave
    \/ FindProviders
    \/ Cancel
    \/ ProcessBlock
    \/ ProcessBlockPresence
    \/ Disconnected
    \/ DialFailure
    \/ PollAll
    \/ PollPeer

Spec == Init /\ [][Next]_vars

(***************************************************************************)
(* The Peer Table under every call sequence of its host and of the swarm.  *)
(***************************************************************************)
PTCids == {"c1"}
Bitswap(m) == [tag |-> "Bitswap", msg |-> m]
Upgrade == [tag |-> "Upgrade"]
Some(p) == [tag |-> "Some", id |-> p]

\* inbound messages: an upgrade, one block, or one block presence
InboundMsgs ==
    {Upgrade}
    \cup {Bitswap([EmptyMsg EXCEPT !.blocks = <<b>>]) :
             b \in {[cid |-> c, data |-> d] : c \in PTCids, d \in Data}}
    \cup {Bitswap([EmptyMsg EXCEPT !.presences = {bp}]) :
             bp \in {Have(c) : c \in PTCids} \cup {DontHave(c) : c \in PTCids}}

PendingPayload(p) ==
    IF p \in DOMAIN known_peers
    THEN Len(known_peers[p].msg.blocks) + Cardinality(known_peers[p].msg.presences)
    ELSE 0

AddPeer == \E p \in Peers : add_peer(p)
WantBlock ==
    \E c \in PTCids, pr \in Priorities, ps \in (SUBSET Peers) \ {{}} : want_block(c, pr, ps)
SendBlock ==
    \E p \in Peers, c \in PTCids, d \in Data :
        PendingPayload(p) < MaxPayload /\ send_block(p, c, d)
SendHaveBlock ==
    \E p \in Peers, c \in PTCids :
        PendingPayload(p) < MaxPayload /\ send_have_block(p, c)
PTFindProviders == \E c \in PTCids, pr \in Priorities : pt_find_providers(c, pr)
CancelBlock == \E c \in PTCids : cancel_block(c)
CancelWantBlock == \E c \in PTCids : cancel_want_block(c)
ConnectionEstablished == \E p \in Peers : inject_connection_established(p)
ConnectionClosed == \E p \in Peers, r \in {0, 1} : inject_connection_closed(p, r)
InjectDialFailure ==
    \E p \in {None} \cup {Some(q) : q \in Peers}, e \in {"ConnectionLimit", "Other"} :
        inject_dial_failure(p, e)
InjectEvent ==
    \E p \in Peers, m \in InboundMsgs :
        Len(events) + EventCount(m) <= MaxEvents /\ inject_event(p, m)
Poll == poll

NextPT ==
    \/ AddPeer
    \/ WantBlock
    \/ SendBlock
    \/ SendHaveBlock
    \/ PTFindProviders
    \/ CancelBlock
    \/ CancelWantBlock
    \/ ConnectionEstablished
    \/ ConnectionClosed
    \/ InjectDialFailure
    \/ InjectEvent
    \/ Poll

SpecPT == Init /\ [][NextPT]_vars

(***************************************************************************)
(* The same with the fairness of the host's event loop, which keeps        *)
(* calling poll_all and poll_peer for every peer.                          *)
(***************************************************************************)
SpecFair ==
    Init /\ [][Next]_vars /\ WF_vars(PollAll) /\ \A p \in Peers : WF_vars(poll_peer(p))

(***************************************************************************)
(* Want queries on two CIDs, their Cancels and everything that acts on     *)
(* them.                                                                   *)
(***************************************************************************)
WWant ==
    next_id < MaxQueries
    /\ \E c \in Cids, pr \in Priorities, ps \in SUBSET Peers : want(c, pr, ps)
WCancel == \E c \in Cids : cancel(c)
WProcessBlock == \E p \in Peers, b \in Blocks : process_block(p, b)
WDisconnected == \E p \in Peers : disconnected(p)
WPollAll == poll_all
WPollPeer == \E p \in Peers : poll_peer(p)

NextWant ==
    \/ WWant
    \/ WCancel
    \/ WProcessBlock
    \/ WDisconnected
    \/ WPollAll
    \/ WPollPeer

SpecWant == Init /\ [][NextWant]_vars

(***************************************************************************)
(* One FindProviders query on a peer set of the size of the saturation     *)
(* bound, or one more.  Peers are interchangeable, and poll_peer does not  *)
(* read the providers found nor process_block_presence the Sent set: the   *)
(* peers are polled in the order of their numbers and answer in it.        *)
(***************************************************************************)
SatPeers == 1 .. (FIND_PROVIDERS_SATURATION + 1)
SatCid == "c1"

SatQuery == 0 \in DOMAIN queries

SatFindProviders ==
    /\ next_id = 0
    /\ \E n \in {FIND_PROVIDERS_SATURATION, FIND_PROVIDERS_SATURATION + 1}, pr \in Priorities :
          find_providers(SatCid, pr, 1 .. n)

\* the next peer that has not been polled
SatPollPeer ==
    /\ SatQuery
    /\ \E p \in queries[0].peers :
          /\ \A q \in queries[0].peers : p <= q
          /\ poll_peer(p)

\* a Have of the next peer that has not answered, or of one that has
SatHave ==
    /\ next_id = 1
    /\ \E p \in SatPeers :
          /\ \/ ~SatQuery /\ p \in {1, FIND_PROVIDERS_SATURATION + 1}
             \/ SatQuery /\ p \in queries[0].providers /\ \A q \in queries[0].providers : q <= p
             \/ SatQuery /\ p \notin queries[0].providers
                         /\ \A q \in SatPeers \ queries[0].providers : p <= q
          /\ process_block_presence(p, Have(SatCid))

\* a DontHave of the first peer, or its Have for another CID
SatOther ==
    /\ next_id = 1
    /\ \E bp \in {DontHave(SatCid), Have("c2")} : process_block_presence(1, bp)

NextSat ==
    \/ SatFindProviders
    \/ SatPollPeer
    \/ SatHave
    \/ SatOther

SpecSat == Init /\ [][NextSat]_vars

(***************************************************************************)
(* Both components.  They share no state and no call of one reaches the    *)
(* other, so a behaviour follows one of them while the other rests.        *)
(***************************************************************************)
QMIdle ==
    queries = [i \in {} |-> None] /\ next_id = 0 /\ last = Nothing /\ cancelled = {}
    /\ attached = {}
PTIdle ==
    known_peers = [p \in {} |-> DefaultPeerState] /\ events = << >> /\ plast = Nothing
    /\ dialed = {}

NextCore ==
    \/ PTIdle /\ Next
    \/ QMIdle /\ NextPT

SpecCore == Init /\ [][NextCore]_vars

(***************************************************************************)
(* The Peer Table with one peer more than find_providers takes.  Peers     *)
(* are interchangeable: they enter the table in the order of their         *)
(* numbers, and poll is called here when it has a dial to make and no      *)
(* peer is being dialed.                                                   *)
(***************************************************************************)
ProvPeers == 1 .. (MAX_PROVIDERS + 1)

ProvAddPeer ==
    \E p \in ProvPeers :
       /\ p \notin DOMAIN known_peers
       /\ \A q \in ProvPeers : q < p => q \in DOMAIN known_peers
       /\ add_peer(p)

\* the first peer that is not connected gets its connection
ProvEstablished ==
    \E p \in DOMAIN known_peers :
       /\ known_peers[p].conn # "Connected"
       /\ \A q \in DOMAIN known_peers : q < p => known_peers[q].conn = "Connected"
       /\ inject_connection_established(p)

\* the last peer added loses its connection
ProvClosed ==
    \E p \in DOMAIN known_peers :
       /\ known_peers[p].conn = "Connected"
       /\ \A q \in DOMAIN known_peers : q <= p
       /\ inject_connection_closed(p, 0)

ProvFindProviders == \E c \in PTCids, pr \in Priorities : pt_find_providers(c, pr)

ProvPoll ==
    /\ \A p \in DOMAIN known_peers : known_peers[p].conn # "Dialing"
    /\ \A p \in DOMAIN known_peers : ~(is_connected(known_peers[p]) /\ ~is_empty(known_peers[p]))
    /\ \E p \in DOMAIN known_peers : needs_connection(known_peers[p])
    /\ poll

NextProv ==
    \/ ProvAddPeer
    \/ ProvEstablished
    \/ ProvClosed
    \/ ProvFindProviders
    \/ ProvPoll

SpecProv == Init /\ [][NextProv]_vars

(***************************************************************************)
(* The Query Manager over more allocations than the id counter has values, *)
(* with MaxQueries queries registered at most.                             *)
(***************************************************************************)
Room == Cardinality(DOMAIN queries) < MaxQueries

WrapWant == Room /\ \E c \in OneCid, pr \in Priorities, ps \in SUBSET Peers : want(c, pr, ps)
WrapSend == Room /\ \E p \in Peers, c \in OneCid, d \in Data : send(p, c, d)
WrapPollPeer == \E p \in Peers : poll_peer(p)

NextWrap ==
    \/ WrapWant
    \/ WrapSend
    \/ WrapPollPeer

SpecWrap == Init /\ [][NextWrap]_vars

(***************************************************************************)
(* The Peer Table in the event loop of its host: the swarm calls poll      *)
(* again and again (weak fairness of poll), while the host records wants   *)
(* and connections come and go.                                            *)
(***************************************************************************)
LoopWantBlock == \E c \in PTCids, pr \in Priorities, p \in Peers : want_block(c, pr, {p})
LoopEstablished == \E p \in Peers : inject_connection_established(p)
LoopClosed == \E p \in Peers : inject_connection_closed(p, 0)
LoopDialFailure ==
    \E p \in Peers, e \in {"ConnectionLimit", "Other"} : inject_dial_failure(Some(p), e)
LoopPoll == poll

NextLoop ==
    \/ LoopWantBlock
    \/ LoopEstablished
    \/ LoopClosed
    \/ LoopDialFailure
    \/ LoopPoll

SpecLoop == Init /\ [][NextLoop]_vars /\ WF_vars(LoopPoll)

(***************************************************************************)
(* The Peer Table under inbound messages that carry a block, a presence    *)
(* and a wantlist entry of every kind, and the poll that drains the        *)
(* events.  No peer is in the table.                                       *)
(***************************************************************************)
OrderEntries ==
    {[cid |-> "c1", kind |-> "WantBlock", priority |-> 100],
     [cid |-> "c2", kind |-> "WantHave", priority |-> 100],
     [cid |-> "c3", kind |-> "Cancel", priority |-> 0]}

OrderMsgs ==
    {Bitswap([wantlist |-> wl, blocks |-> bs, presences |-> ps]) :
        wl \in {{}, OrderEntries},
        bs \in {<< >>, <<[cid |-> "c1", data |-> "hello"]>>},
        ps \in SUBSET {Have("c1")}}

OrderInjectEvent ==
    \E p \in Peers, m \in OrderMsgs :
        Len(events) + EventCount(m) <= MaxQueued /\ inject_event(p, m)

OrderPoll == events # << >> /\ poll

NextOrder ==
    \/ OrderInjectEvent
    \/ OrderPoll

SpecOrder == Init /\ [][NextOrder]_vars

(***************************************************************************)
(* The aggregation of poll_peer: Want and FindProviders queries on two     *)
(* CIDs with two priorities, and the messages poll_peer makes of them.     *)
(***************************************************************************)
AggPriorities == {100, 200}

AggWant ==
    next_id < MaxQueries
    /\ \E c \in Cids, pr \in AggPriorities, ps \in SUBSET Peers : want(c, pr, ps)
AggFindProviders ==
    next_id < MaxQueries
    /\ \E c \in Cids, pr \in AggPriorities, ps \in SUBSET Peers : find_providers(c, pr, ps)
AggPollPeer == \E p \in Peers : poll_peer(p)

NextAgg ==
    \/ AggWant
    \/ AggFindProviders
    \/ AggPollPeer

SpecAgg == Init /\ [][NextAgg]_vars

(***************************************************************************)
(* The wantlists of the Peer Table: want-block, want-have and cancel       *)
(* entries on two CIDs with two priorities, recorded in every order, and   *)
(* the poll that hands the messages out.                                   *)
(***************************************************************************)
EntWantBlock ==
    \E c \in Cids, pr \in AggPriorities, ps \in (SUBSET Peers) \ {{}} : want_block(c, pr, ps)
EntFindProviders == \E c \in Cids, pr \in AggPriorities : pt_find_providers(c, pr)
EntCancelBlock == \E c \in Cids : cancel_block(c)
EntEstablished == \E p \in Peers : inject_connection_established(p)
EntPoll == poll

NextEnt ==
    \/ EntWantBlock
    \/ EntFindProviders
    \/ EntCancelBlock
    \/ EntEstablished
    \/ EntPoll

SpecEnt == Init /\ [][NextEnt]_vars

(***************************************************************************)
(* Properties of the Query Manager.                                        *)
(***************************************************************************)

\* the queries that a step takes out of the registry
Removed(qs, qs2) == (DOMAIN qs) \ (DOMAIN qs2)

\* C1: every query that is created eventually leaves the registry, and it
\* leaves it with exactly one outcome event (a completion reported for its
\* id) unless the step that removes it is the host's cancel; no query stays
\* registered forever and none is removed without an outcome.
C1_EveryQueryTerminatesWithOutcome ==
    /\ [][(\E c \in Cids : cancel(c))
           \/ \A i \in Removed(queries, queries') : reported'[i] = reported[i] + 1]_vars
    /\ \A i \in Ids : (i \in DOMAIN queries) ~> (i \notin DOMAIN queries)

\* C2: no QueryId is reported as completed more than once, over
\* process_block, process_block_presence and the Timeout of poll_all.
C2_ReportedAtMostOnce == \A i \in Ids : reported[i] <= 1

\* two queries have been reported, the second one by poll_all
C2_TwoReported ==
    /\ last.op = "poll_all"
    /\ \E i, j \in Ids : i # j /\ reported[i] = 1 /\ reported[j] = 1

\* C5 as stated: process_block(p, b) removes every Want on b.cid and for
\* every removed Want in state Sent(S) a Cancel on b.cid with providers
\* exactly S \ {p} exists afterwards, also when S = {p}.
C5_CancelForEverySentWant ==
    [][\A p \in Peers, b \in Blocks :
          process_block(p, b) =>
             /\ \A i \in DOMAIN queries' :
                   ~(queries'[i].kind = "Want" /\ queries'[i].cid = b.cid)
             /\ \A i \in WantsOf(b.cid) :
                   IsSent(queries[i]) =>
                      \E j \in DOMAIN queries' :
                         /\ queries'[j].kind = "Cancel"
                         /\ queries'[j].cid = b.cid
                         /\ queries'[j].providers = queries[i].state.set \ {p}]_vars

\* C5 amended: process_block(p, b) removes every Want on b.cid and nothing
\* else; for every removed Want in state Sent(S) with S \ {p} not empty it
\* creates one Cancel on b.cid in state New with providers exactly S \ {p},
\* and it creates no other query (none for S \ {p} = {} and none for New).
C5_CancelForContactedPeers ==
    [][\A p \in Peers, b \in Blocks :
          process_block(p, b) =>
             LET W == WantsOf(b.cid)
                 created == Removed(queries', queries)
                 need == {i \in W : IsSent(queries[i]) /\ queries[i].state.set \ {p} # {}}
             IN  /\ \A i \in DOMAIN queries' :
                       ~(queries'[i].kind = "Want" /\ queries'[i].cid = b.cid)
                 /\ \A i \in (DOMAIN queries) \ W :
                       i \in DOMAIN queries' /\ queries'[i] = queries[i]
                 /\ Cardinality(created) = Cardinality(need)
                 /\ \A i \in need : \E j \in created :
                       queries'[j] = CancelQ(queries[i].state.set \ {p}, b.cid)
                 /\ \A j \in created : \E i \in need :
                       queries'[j] = CancelQ(queries[i].state.set \ {p}, b.cid)]_vars

\* process_block has removed two Wants, of which one had been sent to the
\* sender only and one to another peer too: one Cancel has been created
C5_OneCancelForTwoWants ==
    /\ last.op = "process_block"
    /\ last.query_ids = {0, 1}
    /\ DOMAIN queries = {2}
    /\ queries[2].kind = "Cancel"
    /\ queries[2].state = New
    /\ queries[2].providers # {}

\* C6: process_block returns as ids exactly the Wants it removes and as
\* unused providers the union of their remaining providers, each peer
\* listed once.
C6_UnusedProvidersListedOnce ==
    [][\A p \in Peers, b \in Blocks :
          (process_block(p, b) /\ WantsOf(b.cid) # {}) =>
             /\ last'.query_ids = WantsOf(b.cid)
             /\ last'.unused_providers =
                   [q \in UNION {queries[i].providers : i \in WantsOf(b.cid)} |-> 1]]_vars

\* a FindProviders query as find_providers creates it for no peers
EmptyFindProviders(i) ==
    /\ i \in DOMAIN queries
    /\ queries[i].kind = "FindProviders"
    /\ queries[i].peers = {}
    /\ queries[i].providers = {}
    /\ queries[i].state = New

\* C9: a FindProviders query created with no peers never has a Sent peer
\* and is eventually ended by poll_all with the Timeout failure.
C9_EmptyFindProvidersTimesOut ==
    \A i \in Ids :
       EmptyFindProviders(i) ~>
          (last.op = "poll_all" /\ last.id = i /\ last.ret.error = "Timeout")

(***************************************************************************)
(* Properties of the saturation of FindProviders.                          *)
(***************************************************************************)

\* C8 as stated: a FindProviders query on 40 peers or more completes at the
\* 40th distinct Have exactly, with 40 providers, and at no other Have;
\* Haves that arrive after the completion complete nothing.
C8_CompletesAtFortiethHaveOnly ==
    [][\A p \in SatPeers :
          process_block_presence(p, Have(SatCid)) =>
             IF SatQuery
             THEN LET found == queries[0].providers \cup {p}
                  IN  /\ (0 \notin DOMAIN queries')
                            <=> (Cardinality(found) = FIND_PROVIDERS_SATURATION)
                      /\ (0 \notin DOMAIN queries') => last'.results = {<<0, found>>}
             ELSE last' = Nothing /\ queries' = queries]_vars

\* C8 amended: the query completes at the first Have at which 40 distinct
\* providers are recorded or no candidate is left that has not been sent to;
\* while a candidate is left it completes at the 40th distinct Have exactly,
\* with 40 providers; Haves after the completion complete nothing.
C8_CompletesAtSaturationOrExhaustion ==
    [][\A p \in SatPeers :
          process_block_presence(p, Have(SatCid)) =>
             IF SatQuery
             THEN LET found == queries[0].providers \cup {p}
                  IN  /\ (0 \notin DOMAIN queries')
                            <=> \/ queries[0].peers = {}
                                \/ Cardinality(found) = FIND_PROVIDERS_SATURATION
                      /\ (0 \notin DOMAIN queries') =>
                            /\ last'.results = {<<0, found>>}
                            /\ reported'[0] = 1
                      /\ (0 \notin DOMAIN queries' /\ queries[0].peers # {}) =>
                            Cardinality(found) = FIND_PROVIDERS_SATURATION
                      /\ (0 \in DOMAIN queries') =>
                            /\ queries'[0].providers = found
                            /\ Cardinality(found) < FIND_PROVIDERS_SATURATION
             ELSE last' = Nothing /\ queries' = queries /\ reported' = reported]_vars

\* the query has completed with 40 providers
C8_CompletedWithForty ==
    /\ last.op = "process_block_presence"
    /\ \E r \in last.results : r[1] = 0 /\ Cardinality(r[2]) = FIND_PROVIDERS_SATURATION
    /\ ~SatQuery

(***************************************************************************)
(* Properties of the Peer Table.                                           *)
(***************************************************************************)

\* C3: when poll returns NotifyHandler(p, m), m is the message that was
\* pending for p and the pending message of p is empty afterwards, so that
\* an entry recorded once is handed over in one NotifyHandler only.
C3_NotifyHandlerTakesMessage ==
    [][\A p \in Peers :
          (poll /\ plast'.op = "poll" /\ plast'.ret.tag = "NotifyHandler"
                /\ plast'.ret.peer_id = p) =>
             /\ p \in DOMAIN known_peers
             /\ plast'.ret.event = known_peers[p].msg
             /\ ~MsgIsEmpty(plast'.ret.event)
             /\ known_peers'[p].msg = EmptyMsg]_vars

\* poll has handed over a message with a want and a block or a presence
C3_MessageHandedOver ==
    /\ plast.op = "poll"
    /\ plast.ret.tag = "NotifyHandler"
    /\ plast.ret.event.wantlist # {}
    /\ (plast.ret.event.blocks # << >> \/ plast.ret.event.presences # {})
    /\ known_peers[plast.ret.peer_id].msg = EmptyMsg

\* C4: after cancel_block(c) no known peer has a want-block or want-have
\* entry for c pending, so none that was pending at the call is sent later.
C4_CancelBlockDropsPendingWants ==
    [][\A c \in PTCids :
          cancel_block(c) =>
             \A p \in DOMAIN known_peers' : ~HasWant(known_peers'[p], c)]_vars

\* cancel_block has dropped the wants that were pending for two peers
C4_TwoPeersDropped ==
    /\ plast.op = "cancel_block"
    /\ Cardinality(plast.dropped) = 2
    /\ \A p \in plast.dropped : p \in DOMAIN known_peers

\* the peers that the next poll may pick for a message or a dial
Eligible(p) ==
    /\ p \in DOMAIN known_peers
    /\ \/ is_connected(known_peers[p]) /\ ~is_empty(known_peers[p])
       \/ needs_connection(known_peers[p])

\* what inject_dial_failure leaves in plast when the dial of p, made for its
\* pending message, fails on the connection limit
DialFailed(p) ==
    [op |-> "inject_dial_failure", peer |-> p, error |-> "ConnectionLimit",
     was |-> "Dialing", pending |-> TRUE]

\* C10: inject_dial_failure(P, ConnectionLimit) on a peer P that is Dialing
\* with a message pending keeps P, sets it Disconnected and leaves the
\* message alone; the next poll, with no event queued and no other peer
\* eligible, returns Dial(P) again.
C10_ConnectionLimitRedials ==
    [][\A P \in Peers :
          /\ ( /\ P \in DOMAIN known_peers
               /\ known_peers[P].conn = "Dialing"
               /\ ~is_empty(known_peers[P])
               /\ inject_dial_failure(Some(P), "ConnectionLimit") )
             => /\ P \in DOMAIN known_peers'
                /\ known_peers'[P].conn = "Disconnected"
                /\ known_peers'[P].msg = known_peers[P].msg
                /\ DOMAIN known_peers' = DOMAIN known_peers
          /\ ( /\ plast = DialFailed(P)
               /\ P \in DOMAIN known_peers
               /\ ~is_empty(known_peers[P])
               /\ events = << >>
               /\ \A q \in Peers \ {P} : ~Eligible(q)
               /\ poll )
             => /\ plast' = [op |-> "poll", ret |-> [tag |-> "Dial", peer_id |-> P]]
                /\ known_peers'[P].conn = "Dialing"
                /\ known_peers'[P].msg = known_peers[P].msg]_vars

\* the dial of a peer with a message pending has just failed on the limit,
\* no event is queued and no other peer is eligible
C10_DialFailedOnLimit ==
    \E P \in Peers :
       /\ plast = DialFailed(P)
       /\ P \in DOMAIN known_peers
       /\ known_peers[P].conn = "Disconnected"
       /\ ~is_empty(known_peers[P])
       /\ events = << >>
       /\ \A q \in Peers \ {P} : ~Eligible(q)

(***************************************************************************)
(* A property of both components.                                          *)
(***************************************************************************)

\* C7: once a want on c is satisfied by an inbound block (inject_event in
\* the Peer Table, process_block in the Query Manager), no peer that the
\* want has not been sent to gets it later: no want-block for c stays
\* pending for any peer, no Want on c stays registered, and the messages
\* that are sent carry only what is pending or registered.
C7_NoWantAfterBlock ==
    [][/\ \A p \in Peers, c \in PTCids, d \in Data :
             inject_event(p, Bitswap([EmptyMsg EXCEPT !.blocks = <<[cid |-> c, data |-> d]>>]))
                => \A q \in DOMAIN known_peers' : \A e \in known_peers'[q].msg.wantlist :
                      ~(e.cid = c /\ e.kind = "WantBlock")
       /\ \A p \in Peers, b \in Blocks :
             process_block(p, b)
                => \A i \in DOMAIN queries' :
                      ~(queries'[i].kind = "Want" /\ queries'[i].cid = b.cid)
       /\ \A p \in Peers :
             (poll_peer(p) /\ last'.op = "poll_peer" /\ last'.ret.tag = "NotifyHandler")
                => \A e \in last'.ret.event.wantlist :
                      e.kind = "WantBlock" =>
                         \E i \in DOMAIN queries :
                            /\ queries[i].kind = "Want"
                            /\ queries[i].cid = e.cid
                            /\ p \in queries[i].providers
       /\ (poll /\ plast'.op = "poll" /\ plast'.ret.tag = "NotifyHandler")
             => plast'.ret.event = known_peers[plast'.ret.peer_id].msg]_vars

\* an inbound block has arrived while its want was pending for a peer other
\* than the sender, and the want is pending no more
C7_PendingWantDropped ==
    /\ plast.op = "inject_event"
    /\ plast.dropped # {}
    /\ \A q \in plast.dropped :
          q \in DOMAIN known_peers /\ known_peers[q].conn # "Connected"

(***************************************************************************)
(* Dial failures.                                                          *)
(***************************************************************************)

\* C11: inject_dial_failure(P, kind) with a kind other than ConnectionLimit
\* leaves P absent from the table, whatever its state and pending message
\* were, and leaves every other peer's state as it was.
C11_OtherDialFailureForgetsPeer ==
    [][\A P \in Peers :
          inject_dial_failure(Some(P), "Other") =>
             /\ P \notin DOMAIN known_peers'
             /\ DOMAIN known_peers' = (DOMAIN known_peers) \ {P}
             /\ \A q \in DOMAIN known_peers' : known_peers'[q] = known_peers[q]]_vars

\* a connected peer has been forgotten on a dial failure while another peer
\* with a message pending stays
C11_ConnectedPeerForgotten ==
    /\ plast.op = "inject_dial_failure"
    /\ plast.error = "Other"
    /\ plast.was = "Connected"
    /\ plast.peer \notin DOMAIN known_peers
    /\ \E q \in DOMAIN known_peers : ~is_empty(known_peers[q])

(***************************************************************************)
(* Wants that time out.                                                    *)
(***************************************************************************)

\* a Want or a Cancel with nobody left to contact and nobody contacted left
Exhausted(i) ==
    /\ i \in DOMAIN queries
    /\ queries[i].kind \in {"Want", "Cancel"}
    /\ queries[i].providers = {}
    /\ queries[i].state = Sent({})

\* C12 as stated: a Want with every provider contacted and every contacted
\* peer disconnected is returned, and removed, by the first poll_all after
\* the last disconnect.  (A Want becomes exhausted by a disconnect only and
\* every poll_all in such a state returns an event, so it is the first
\* poll_all that does not return it if any does not.)
C12_FirstPollAllReturnsWant ==
    [][\A i \in Ids :
          (Exhausted(i) /\ queries[i].kind = "Want" /\ poll_all) =>
             /\ last'.op = "poll_all"
             /\ last'.id = i
             /\ last'.ret.kind = "Want"
             /\ i \notin DOMAIN queries']_vars

\* C12 amended: every poll_all called while a query is exhausted removes
\* one exhausted query and returns the Timeout event of its kind, so the
\* Want is returned by the first poll_all if it is the only exhausted query;
\* its id is reported once, and a poll_all with no exhausted query returns
\* nothing.
C12_PollAllReturnsOneExhausted ==
    [][poll_all =>
          LET fin == {i \in Ids : Exhausted(i)}
          IN  IF fin = {}
              THEN last' = Nothing /\ queries' = queries /\ reported' = reported
              ELSE \E i \in fin :
                      /\ last' = [op |-> "poll_all",
                                  ret |-> [tag |-> "OutboundQueryCompleted",
                                           kind |-> queries[i].kind,
                                           result |-> "Err", error |-> "Timeout"],
                                  id |-> i]
                      /\ queries' = Restrict(queries, (DOMAIN queries) \ {i})
                      /\ reported[i] = 0
                      /\ reported' = [reported EXCEPT ![i] = 1]]_vars

\* poll_all has returned the Timeout of one Want while another exhausted
\* Want is still registered
C12_OneOfTwoReturned ==
    /\ last.op = "poll_all"
    /\ last.ret.kind = "Want"
    /\ reported[last.id] = 1
    /\ \E j \in Ids : Exhausted(j) /\ queries[j].kind = "Want"

(***************************************************************************)
(* The host's cancel.                                                      *)
(***************************************************************************)

\* C13: cancel(cid) removes every Want on cid, and every peer that a
\* removed Want had been sent to is a provider of a Cancel on cid that the
\* call creates, also when several Wants on cid had been sent to different
\* peers.
C13_CancelReachesEverySentPeer ==
    [][\A c \in Cids :
          cancel(c) =>
             /\ \A i \in DOMAIN queries' :
                   ~(queries'[i].kind = "Want" /\ queries'[i].cid = c)
             /\ \A i \in WantsOf(c) :
                   IsSent(queries[i]) =>
                      \A p \in queries[i].state.set :
                         \E j \in Removed(queries', queries) :
                            /\ queries'[j].kind = "Cancel"
                            /\ queries'[j].cid = c
                            /\ queries'[j].state = New
                            /\ p \in queries'[j].providers]_vars

(***************************************************************************)
(* The local cancel of the Peer Table.                                     *)
(***************************************************************************)

\* C14: after cancel_want_block(c) no peer has a want entry for c pending
\* and no entry has been added to any pending wantlist, a cancel for c in
\* particular; a NotifyHandler carries the pending message and nothing
\* else, so want_block(c, pr, {P1, P2}) followed by cancel_want_block(c)
\* puts neither a want nor a cancel for c into a message to P1 or P2.
C14_CancelWantBlockIsLocal ==
    [][/\ \A c \in PTCids :
             cancel_want_block(c) =>
                /\ DOMAIN known_peers' = DOMAIN known_peers
                /\ \A p \in DOMAIN known_peers :
                      /\ ~HasWant(known_peers'[p], c)
                      /\ known_peers'[p].msg.wantlist \subseteq known_peers[p].msg.wantlist
                      /\ known_peers'[p].msg.blocks = known_peers[p].msg.blocks
                      /\ known_peers'[p].msg.presences = known_peers[p].msg.presences
                      /\ known_peers'[p].conn = known_peers[p].conn
       /\ \A p \in Peers :
             (plast'.op = "poll" /\ plast'.ret.tag = "NotifyHandler"
                 /\ plast'.ret.peer_id = p /\ poll) =>
                plast'.ret.event.wantlist = known_peers[p].msg.wantlist]_vars

\* want_block for two peers has been followed by cancel_want_block before
\* any dispatch: the want was pending for both and nothing is pending now
C14_WantDroppedBeforeDispatch ==
    /\ plast.op = "cancel_want_block"
    /\ Cardinality(plast.dropped) = 2
    /\ \A p \in plast.dropped :
          /\ p \in DOMAIN known_peers
          /\ known_peers[p].conn = "Unknown"
          /\ known_peers[p].msg.wantlist = {}

(***************************************************************************)
(* Dials.                                                                  *)
(***************************************************************************)

\* C15: once poll has returned Dial(P), it returns no second Dial(P) before
\* inject_connection_established or inject_dial_failure resolves the dial
\* of P, whatever other calls come in between.
C15_NoSecondDialBeforeResolution ==
    [][\A P \in Peers :
          (P \in dialed /\ poll) =>
             ~(plast'.ret.tag = "Dial" /\ plast'.ret.peer_id = P)]_vars

\* C16: add_peer(p) inserts a fresh state only if p is absent: for a peer
\* that is in the table it leaves the conn state and the pending message as
\* they are, so that a second add_peer(p) changes nothing.
C16_AddPeerOnlyInsertsWhenAbsent ==
    [][\A p \in Peers :
          add_peer(p) =>
             /\ DOMAIN known_peers' = (DOMAIN known_peers) \cup {p}
             /\ \A q \in DOMAIN known_peers : known_peers'[q] = known_peers[q]
             /\ p \notin DOMAIN known_peers => known_peers'[p] = DefaultPeerState]_vars

(***************************************************************************)
(* find_providers of the Peer Table.                                       *)
(***************************************************************************)

\* the peers whose state a step changes
Touched == {p \in DOMAIN known_peers : known_peers'[p] # known_peers[p]}

WantHaveEntry(c, pr) == [cid |-> c, kind |-> "WantHave", priority |-> pr]

\* C17 as stated: find_providers(cid, priority) records a want-have entry on
\* at most 10 peers, all of them Connected at the call; the pending message
\* of a peer that is Unknown, Disconnected or Dialing is unchanged.
C17_WantHaveOnConnectedOnly ==
    [][\A c \in PTCids, pr \in Priorities :
          pt_find_providers(c, pr) =>
             /\ DOMAIN known_peers' = DOMAIN known_peers
             /\ Cardinality(Touched) <= MAX_PROVIDERS
             /\ \A p \in Touched :
                   /\ known_peers[p].conn = "Connected"
                   /\ WantHaveEntry(c, pr) \in known_peers'[p].msg.wantlist]_vars

\* C17 amended: find_providers(cid, priority) records a want-have entry on
\* peers that are Connected or Unknown at the call: on all of them if they
\* are 10 at most, on 10 of them otherwise; the state of a peer that is
\* Disconnected or Dialing is unchanged.
C17_WantHaveOnConnectedOrUnknown ==
    [][\A c \in PTCids, pr \in Priorities :
          pt_find_providers(c, pr) =>
             LET elig == {p \in DOMAIN known_peers :
                             known_peers[p].conn \in {"Connected", "Unknown"}}
                 has == {p \in elig : WantHaveEntry(c, pr) \in known_peers'[p].msg.wantlist}
             IN  /\ DOMAIN known_peers' = DOMAIN known_peers
                 /\ Cardinality(Touched) <= MAX_PROVIDERS
                 /\ \A p \in Touched :
                       /\ p \in elig
                       /\ known_peers'[p] =
                             [known_peers[p] EXCEPT !.msg.wantlist =
                                 {e \in @ : e.cid # c} \cup {WantHaveEntry(c, pr)}]
                 /\ IF Cardinality(elig) <= MAX_PROVIDERS
                    THEN has = elig
                    ELSE Cardinality(has) >= MAX_PROVIDERS]_vars

\* find_providers has found 11 peers to ask and has skipped one: 10 peers
\* have the entry, a peer that is Unknown among them
C17_TenOfElevenAsked ==
    /\ plast.op = "find_providers"
    /\ Cardinality(plast.skipped) = 1
    /\ Cardinality({p \in DOMAIN known_peers : HasWant(known_peers[p], "c1")}) = MAX_PROVIDERS
    /\ \E p \in DOMAIN known_peers :
          known_peers[p].conn = "Unknown" /\ HasWant(known_peers[p], "c1")
    /\ \E p \in DOMAIN known_peers :
          known_peers[p].conn = "Connected" /\ HasWant(known_peers[p], "c1")

(***************************************************************************)
(* Cancelled queries and the allocation of ids.                            *)
(***************************************************************************)

\* C18: a query that cancel(cid) has removed is never completed afterwards:
\* it is not registered, and its id has not been returned by process_block
\* or process_block_presence nor reported by poll_all, whatever blocks
\* arrive and whatever peers disconnect after the cancel.
C18_CancelledNeverCompletes ==
    \A i \in cancelled : i \notin DOMAIN queries /\ reported[i] = 0

\* after a cancel a block for the CID has arrived and has completed a Want
\* that is not the cancelled one
C18_BlockAfterCancel ==
    /\ cancelled # {}
    /\ last.op = "process_block"
    /\ last.query_ids # {}
    /\ last.query_ids \cap cancelled = {}

\* C19: every creation allocates an id that no registered query has at that
\* moment (for cancel: after the Wants on the CID are removed), so that no
\* query is overwritten, and the counter advances by one modulo its width.
C19_AllocatedIdIsFresh ==
    [][/\ \A c \in Cids, pr \in Priorities, ps \in SUBSET Peers :
             want(c, pr, ps) => next_id \notin DOMAIN queries
       /\ \A p \in Peers, c \in Cids, d \in Data :
             send(p, c, d) => next_id \notin DOMAIN queries
       /\ \A c \in Cids :
             (cancel(c) /\ last'.op = "cancel") =>
                next_id \notin (DOMAIN queries) \ WantsOf(c)
       /\ \A p \in Peers, b \in Blocks :
             process_block(p, b) =>
                \A i \in (DOMAIN queries) \ WantsOf(b.cid) :
                   i \in DOMAIN queries' /\ queries'[i] = queries[i]
       /\ next_id' # next_id =>
             \E n \in 1 .. IdModulus :
                /\ next_id' = (next_id + n) % IdModulus
                /\ \A k \in 0 .. (n - 1) : (next_id + k) % IdModulus \in DOMAIN queries'
                /\ Cardinality(DOMAIN queries') >= n]_vars

(***************************************************************************)
(* The order of poll.                                                      *)
(***************************************************************************)

\* C20: poll returns one action per call in strict priority order: the
\* first queued event if there is one; else NotifyHandler(p, msg) for a peer
\* that is Connected with a message pending; else Dial(p) for a peer that is
\* Unknown or Disconnected with a message pending, which becomes Dialing;
\* else nothing.  No Dial is returned while an event is queued or a
\* Connected peer has a message pending.
C20_PollPriorityOrder ==
    [][poll =>
          LET ready == {p \in DOMAIN known_peers :
                           /\ known_peers[p].conn = "Connected"
                           /\ known_peers[p].msg # EmptyMsg}
              todial == {p \in DOMAIN known_peers :
                            /\ known_peers[p].conn \in {"Unknown", "Disconnected"}
                            /\ known_peers[p].msg # EmptyMsg}
          IN  IF events # << >>
              THEN /\ plast'.ret = [tag |-> "GenerateEvent", event |-> Head(events)]
                   /\ events' = Tail(events)
                   /\ known_peers' = known_peers
              ELSE IF ready # {}
              THEN /\ events' = events
                   /\ \E p \in ready :
                         /\ plast'.ret = [tag |-> "NotifyHandler", peer_id |-> p,
                                          event |-> known_peers[p].msg]
                         /\ known_peers' = [known_peers EXCEPT ![p].msg = EmptyMsg]
              ELSE IF todial # {}
              THEN /\ events' = events
                   /\ \E p \in todial :
                         /\ plast'.ret = [tag |-> "Dial", peer_id |-> p]
                         /\ known_peers' = [known_peers EXCEPT ![p].conn = "Dialing"]
              ELSE /\ plast'.ret = [tag |-> "Pending"]
                   /\ events' = events
                   /\ known_peers' = known_peers]_vars

\* poll has handed a message to a connected peer while another peer was
\* waiting for a dial, and is still
C20_MessageBeforeDial ==
    /\ plast.op = "poll"
    /\ plast.ret.tag = "NotifyHandler"
    /\ events = << >>
    /\ \E q \in DOMAIN known_peers :
          /\ q # plast.ret.peer_id
          /\ known_peers[q].conn \in {"Unknown", "Disconnected"}
          /\ known_peers[q].msg # EmptyMsg
(***************************************************************************)
(* The fairness of poll.                                                   *)
(***************************************************************************)

\* C21: under repeated polling no peer is starved: a peer that is Connected
\* with a message pending gets its NotifyHandler and a peer that is Unknown
\* or Disconnected with a message pending gets its Dial, also while other
\* peers keep getting new entries; so no peer stays eligible for ever (the
\* NotifyHandler empties its message, the Dial makes it Dialing).
C21_NoPeerStarved == \A p \in Peers : []<>(~Eligible(p))

(***************************************************************************)
(* The close of a connection.                                              *)
(***************************************************************************)

\* C22: inject_connection_closed(P, remaining) sets P Disconnected if
\* remaining = 0 and leaves P as it is otherwise; no pending message and no
\* other peer changes.  A message that is pending at the close is handed out
\* unchanged after the re-dial: P is then eligible for a dial, the poll that
\* returns Dial(P) and inject_connection_established(P) change no message,
\* and the NotifyHandler for P carries the message pending for P.
C22_CloseKeepsMessage ==
    [][/\ \A P \in Peers, r \in {0, 1} :
             inject_connection_closed(P, r) =>
                /\ DOMAIN known_peers' = DOMAIN known_peers
                /\ events' = events
                /\ \A q \in DOMAIN known_peers :
                      /\ known_peers'[q].msg = known_peers[q].msg
                      /\ known_peers'[q].conn =
                            IF q = P /\ r = 0 THEN "Disconnected" ELSE known_peers[q].conn
                /\ (r = 0 /\ P \in DOMAIN known_peers /\ known_peers[P].msg # EmptyMsg)
                      => known_peers'[P].conn \in {"Unknown", "Disconnected"}
       /\ \A P \in Peers :
             (plast'.op = "poll" /\ plast'.ret = [tag |-> "Dial", peer_id |-> P] /\ poll) =>
                /\ DOMAIN known_peers' = DOMAIN known_peers
                /\ \A q \in DOMAIN known_peers : known_peers'[q].msg = known_peers[q].msg
       /\ \A P \in Peers :
             inject_connection_established(P) =>
                /\ DOMAIN known_peers' = (DOMAIN known_peers) \cup {P}
                /\ known_peers'[P].conn = "Connected"
                /\ \A q \in DOMAIN known_peers : known_peers'[q].msg = known_peers[q].msg
       /\ \A P \in Peers :
             (plast'.op = "poll" /\ plast'.ret.tag = "NotifyHandler"
                 /\ plast'.ret.peer_id = P /\ poll) =>
                /\ known_peers[P].conn = "Connected"
                /\ plast'.ret.event = known_peers[P].msg]_vars

\* the last connection of a peer with a message pending has been closed: the
\* peer is Disconnected and the message is pending still
C22_ClosedWithMessagePending ==
    /\ plast.op = "inject_connection_closed"
    /\ plast.peer \in DOMAIN known_peers
    /\ known_peers[plast.peer].conn = "Disconnected"
    /\ known_peers[plast.peer].msg.wantlist # {}
    /\ known_peers[plast.peer].msg.blocks # << >>

(***************************************************************************)
(* The order of the events.                                                *)
(***************************************************************************)

\* the place of an event in the order of the events of one inbound message
Rank(e) ==
    IF e.tag = "OutboundQueryCompleted"
    THEN (IF e.kind = "Want" THEN 1 ELSE 2)
    ELSE (IF e.kind = "Want" THEN 3 ELSE IF e.kind = "WantHave" THEN 4 ELSE 5)

\* the events the step has queued
Queued == SubSeq(events', Len(events) + 1, Len(events'))

\* C23: the events of one inbound message are queued behind the events
\* that are queued already, in the order Want Ok (one per block, in the order
\* of the blocks), FindProviders Ok (one per presence), InboundRequest Want,
\* InboundRequest WantHave, InboundRequest Cancel (one per wantlist entry);
\* poll returns the first queued event and removes it, so that the events of
\* an earlier message are drained before those of a later one.
C23_EventsInOrder ==
    [][/\ \A p \in Peers, m \in OrderMsgs :
             inject_event(p, m) =>
                LET nb == Len(m.msg.blocks)
                    np == Cardinality(m.msg.presences)
                    nw == Cardinality(OfKind(m.msg.wantlist, "WantBlock"))
                    nh == Cardinality(OfKind(m.msg.wantlist, "WantHave"))
                    nc == Cardinality(OfKind(m.msg.wantlist, "Cancel"))
                IN  /\ Len(events') = Len(events) + nb + np + nw + nh + nc
                    /\ SubSeq(events', 1, Len(events)) = events
                    /\ \A k \in DOMAIN Queued :
                          Queued[k].tag = "InboundRequest" => Queued[k].sender = p
                    /\ \A k \in 1 .. nb : Queued[k] = WantOk(p, m.msg.blocks[k])
                    /\ \A k \in (nb + 1) .. (nb + np) :
                          /\ Rank(Queued[k]) = 2
                          /\ Queued[k].provider = p
                    /\ \A k \in (nb + np + 1) .. (nb + np + nw) : Rank(Queued[k]) = 3
                    /\ \A k \in (nb + np + nw + 1) .. (nb + np + nw + nh) : Rank(Queued[k]) = 4
                    /\ \A k \in (nb + np + nw + nh + 1) .. Len(Queued) : Rank(Queued[k]) = 5
       /\ (events # << >> /\ poll) =>
             /\ plast'.ret = [tag |-> "GenerateEvent", event |-> Head(events)]
             /\ events' = Tail(events)]_vars

\* poll has returned the Want Ok of a message of one peer; the other four
\* events of that message are queued in their order, before the Want Ok of a
\* message of the other peer
C23_FiveDrainedInOrder ==
    /\ plast.op = "poll"
    /\ plast.ret.tag = "GenerateEvent"
    /\ Rank(plast.ret.event) = 1
    /\ Len(events) = 5
    /\ \A k \in 1 .. 4 : Rank(events[k]) = k + 1
    /\ events[1].provider = plast.ret.event.sender
    /\ \A k \in 2 .. 4 : events[k].sender = plast.ret.event.sender
    /\ Rank(events[5]) = 1
    /\ events[5].sender # plast.ret.event.sender

(***************************************************************************)
(* Inbound blocks and presences in the Peer Table.                         *)
(***************************************************************************)

CancelEntry(c) == [cid |-> c, kind |-> "Cancel", priority |-> 0]

\* C24: when a block for c arrives from S, afterwards no peer has a
\* want-block or want-have entry for c pending, S has a cancel entry for c
\* pending if S is in the table (and is not put into it otherwise), and no
\* other peer has got a cancel entry.
C24_BlockCancelsOnSenderOnly ==
    [][\A S \in Peers, c \in PTCids, d \in Data :
          inject_event(S, Bitswap([EmptyMsg EXCEPT !.blocks = <<[cid |-> c, data |-> d]>>])) =>
             /\ DOMAIN known_peers' = DOMAIN known_peers
             /\ \A p \in DOMAIN known_peers : ~HasWant(known_peers'[p], c)
             /\ S \in DOMAIN known_peers => CancelEntry(c) \in known_peers'[S].msg.wantlist
             /\ \A p \in (DOMAIN known_peers) \ {S} :
                   OfKind(known_peers'[p].msg.wantlist, "Cancel")
                      \subseteq OfKind(known_peers[p].msg.wantlist, "Cancel")]_vars

\* a block has arrived from a known peer while its want was pending for
\* another peer: the sender has the cancel pending and the other peer has
\* neither the want nor a cancel
C24_CancelOnSenderWantDroppedElsewhere ==
    /\ plast.op = "inject_event"
    /\ plast.sender \in DOMAIN known_peers
    /\ CancelEntry("c1") \in known_peers[plast.sender].msg.wantlist
    /\ plast.dropped # {}
    /\ \A q \in plast.dropped :
          /\ q \in DOMAIN known_peers
          /\ \A e \in known_peers[q].msg.wantlist : e.cid # "c1"

Attached(q) ==
    /\ IsSent(q)
    /\ \/ q.kind \in {"Send", "SendHave"}
       \/ q.kind = "Cancel" /\ q.providers = {}

C27_ChurnDropsPeerFromSentOnly ==
    [][\A p \in Peers :
          /\ disconnected(p) <=> dial_failure(p)
          /\ (disconnected(p) \/ dial_failure(p)) =>
                /\ DOMAIN queries' = DOMAIN queries
                /\ next_id' = next_id
                /\ reported' = reported
                /\ last' = Nothing
                /\ \A i \in DOMAIN queries :
                      /\ queries'[i].state.tag = queries[i].state.tag
                      /\ SentSet(queries'[i]) = SentSet(queries[i]) \ {p}
                      /\ [queries'[i] EXCEPT !.state = New]
                            = [queries[i] EXCEPT !.state = New]]_vars

\* the receiver of a Send that has been attached has gone away, and a Want
\* that has been sent to another peer is as it was
C27_ReceiverGone ==
    /\ last = Nothing
    /\ \E i, j \in DOMAIN queries :
          /\ queries[i].kind = "Send"
          /\ queries[i].state = Sent({})
          /\ queries[j].kind = "Want"
          /\ IsSent(queries[j])
          /\ queries[j].state.set # {}
          /\ queries[j].providers = {}

(***************************************************************************)
(* The failures that poll_all reports.                                     *)
(***************************************************************************)

\* the candidates a query has left to contact; the receiver of a Send or a
\* SendHave is one until the payload has been attached
Candidates(q) ==
    CASE q.kind \in {"Want", "Cancel"} -> q.providers
      [] q.kind = "FindProviders" -> q.peers
      [] OTHER -> IF q.state = New THEN {q.receiver} ELSE {}

TerminalFailed(q) == Candidates(q) = {} /\ q.state = Sent({})

\* C28: poll_all returns an event if and only if some registered query is
\* terminal-failed (no candidate left to contact, state Sent of the empty
\* set); it then removes one such query and nothing else and returns
\* OutboundQueryCompleted with Err(Timeout) of the kind of that query;
\* otherwise it returns nothing and leaves the registry as it is.
C28_PollAllReportsOneFailed ==
    [][poll_all =>
          LET failed == {i \in DOMAIN queries : TerminalFailed(queries[i])}
          IN  /\ (last' # Nothing) <=> (failed # {})
              /\ next_id' = next_id
              /\ failed = {} => (queries' = queries /\ reported' = reported)
              /\ failed # {} =>
                    \E i \in failed :
                       /\ DOMAIN queries' = (DOMAIN queries) \ {i}
                       /\ \A j \in DOMAIN queries' : queries'[j] = queries[j]
                       /\ last'.ret = [tag |-> "OutboundQueryCompleted",
                                       kind |-> queries[i].kind,
                                       result |-> "Err", error |-> "Timeout"]]_vars

\* poll_all has reported the Timeout of a FindProviders while a Send that
\* has failed too is registered still, for the next call
C28_OneOfTwoFailedReported ==
    /\ last.op = "poll_all"
    /\ last.ret.kind = "FindProviders"
    /\ last.ret.error = "Timeout"
    /\ \E j \in DOMAIN queries :
          queries[j].kind = "Send" /\ TerminalFailed(queries[j])

(***************************************************************************)
(* The message of poll_peer.                                               *)
(***************************************************************************)

\* the wantlist entry poll_peer adds for a Want or a FindProviders
EntryOf(q) ==
    [cid |-> q.cid,
     kind |-> IF q.kind = "Want" THEN "WantBlock" ELSE "WantHave",
     priority |-> q.priority]

\* the Want and FindProviders queries that have the peer left to contact
Asking(p) ==
    {i \in DOMAIN queries :
        /\ queries[i].kind \in {"Want", "FindProviders"}
        /\ p \in Candidates(queries[i])}

C30_HaveAccumulatesAndCompletes ==
    [][\A p \in SatPeers, bp \in {Have(SatCid), DontHave(SatCid), Have("c2")} :
          process_block_presence(p, bp) =>
             LET on == {i \in DOMAIN queries :
                           queries[i].kind = "FindProviders" /\ queries[i].cid = bp.cid}
                 done == {i \in on :
                             \/ queries[i].peers = {}
                             \/ Cardinality(queries[i].providers \cup {p})
                                   >= FIND_PROVIDERS_SATURATION}
             IN  IF bp.kind = "Have" /\ on # {}
                 THEN /\ DOMAIN queries' = (DOMAIN queries) \ done
                      /\ \A i \in on \ done :
                            /\ queries'[i].providers = queries[i].providers \cup {p}
                            /\ queries'[i].peers = queries[i].peers
                            /\ queries'[i].state = queries[i].state
                      /\ \A i \in (DOMAIN queries) \ on : queries'[i] = queries[i]
                      /\ done = {} => last' = Nothing
                      /\ done # {} =>
                            /\ last'.results = {<<i, queries[i].providers \cup {p}>> : i \in done}
                            /\ \A r \in last'.results :
                                  /\ r[2] # {}
                                  /\ Cardinality(r[2]) <= FIND_PROVIDERS_SATURATION
                                  /\ queries[r[1]].peers # {}
                                        => Cardinality(r[2]) = FIND_PROVIDERS_SATURATION
                 ELSE /\ last' = Nothing
                      /\ queries' = queries
                      /\ reported' = reported]_vars

\* the query has completed with fewer than 40 providers: it had no candidate
\* peer left
C30_CompletedOnExhaustion ==
    /\ last.op = "process_block_presence"
    /\ \E r \in last.results :
          /\ r[1] = 0
          /\ r[2] # {}
          /\ Cardinality(r[2]) < FIND_PROVIDERS_SATURATION
    /\ 0 \notin DOMAIN queries

(***************************************************************************)
(* The Sent set of a query under the answers of the peers.                 *)
(***************************************************************************)

\* C31: a contacted peer leaves the Sent set of a query when it responds:
\* after process_block_presence(p, Have(cid)) for a peer p in the Sent set of
\* a FindProviders on cid that stays registered, p is no longer in the Sent
\* set of that query.
C31_ResponderLeavesSent ==
    [][\A p \in Peers, c \in Cids :
          process_block_presence(p, Have(c)) =>
             \A i \in (DOMAIN queries) \cap (DOMAIN queries') :
                (queries[i].kind = "FindProviders" /\ queries[i].cid = c
                    /\ p \in SentSet(queries[i]))
                   => p \notin SentSet(queries'[i])]_vars

(***************************************************************************)
(* The wantlist of a peer's pending message.                               *)
(***************************************************************************)

\* the entries a wantlist holds for a cid
EntriesOf(wl, c) == {e \in wl : e.cid = c}

\* C32: the pending wantlist of every peer holds at most one entry per CID;
\* want_block, find_providers and cancel_block for a CID leave their entry
\* as the only one of that CID on the peers they record it for (a want-block
\* clears a pending cancel or want-have, a cancel clears a pending want),
\* and no message handed out carries a want and a cancel for one CID.
C32_OneEntryPerCidPerPeer ==
    /\ [](\A p \in DOMAIN known_peers : \A c \in Cids :
             Cardinality(EntriesOf(known_peers[p].msg.wantlist, c)) <= 1)
    /\ []((plast.op = "poll" /\ plast.ret.tag = "NotifyHandler") =>
             \A c \in Cids : Cardinality(EntriesOf(plast.ret.event.wantlist, c)) <= 1)
    /\ [][\A c \in Cids, pr \in AggPriorities :
             /\ \A ps \in (SUBSET Peers) \ {{}} :
                   want_block(c, pr, ps) =>
                      \A p \in ps :
                         EntriesOf(known_peers'[p].msg.wantlist, c)
                            = {[cid |-> c, kind |-> "WantBlock", priority |-> pr]}
             /\ pt_find_providers(c, pr) =>
                   \A p \in connected_peers :
                      EntriesOf(known_peers'[p].msg.wantlist, c) = {WantHaveEntry(c, pr)}
             /\ cancel_block(c) =>
                   \A p \in DOMAIN known_peers :
                      EntriesOf(known_peers'[p].msg.wantlist, c) = {CancelEntry(c)}]_vars

\* cancel_block has replaced the want that was pending for a CID on a peer
\* that has a want for the other CID pending too
C32_CancelReplacedWant ==
    /\ plast.op = "cancel_block"
    /\ \E p \in plast.dropped :
          known_peers[p].msg.wantlist
             = {CancelEntry("c1"), [cid |-> "c2", kind |-> "WantBlock", priority |-> 200]}

(***************************************************************************)
(* Candidates and contacted peers of a query.                              *)
(***************************************************************************)

\* C33: for every Want, FindProviders and Cancel in the registry, the
\* candidates left to contact (providers, resp. peers) and the Sent set are
\* disjoint: no peer is still to contact and already contacted for one
\* query.
C33_CandidatesDisjointFromSent ==
    \A i \in DOMAIN queries :
       queries[i].kind \in {"Want", "FindProviders", "Cancel"}
          => Candidates(queries[i]) \cap SentSet(queries[i]) = {}

\* the Cancel made of the Sent set of a Want that was sent to two providers
\* has been sent to one of them
C33_CancelPartlySent ==
    \E i \in DOMAIN queries :
       /\ queries[i].kind = "Cancel"
       /\ Candidates(queries[i]) # {}
       /\ SentSet(queries[i]) # {}
       /\ last.op = "poll_peer"

(***************************************************************************)
(* What poll_peer attaches over the lifetime of a query.                   *)
(***************************************************************************)

\* the queries poll_peer(p) puts into its message: those that have p left to
\* contact, a Send or SendHave only if it has not been sent
ToAttach(p) ==
    {i \in DOMAIN queries :
        /\ contains_unused_provider(queries[i], p)
        /\ queries[i].kind \in {"Send", "SendHave"} => queries[i].state = New}

\* C34: over the lifetime of a query poll_peer attaches its entry to a
\* message for a given peer at most once, whatever poll_peer, disconnected,
\* dial_failure and the inbound processing do in between: a query that
\* poll_peer(p) attaches has not been attached for p before, and
\* poll_peer(p) returns no message when every registered query has been.
C34_AttachedOncePerPeer ==
    [][\A p \in Peers :
          poll_peer(p) =>
             /\ \A i \in ToAttach(p) : <<i, p>> \notin attached
             /\ attached' \cap {<<i, p>> : i \in DOMAIN queries'}
                   = {<<i, p>> : i \in (DOMAIN queries')
                                        \cap (ToAttach(p) \cup {j \in Ids : <<j, p>> \in attached})}
             /\ (\A i \in DOMAIN queries : <<i, p>> \in attached)
                   => (last' = Nothing /\ \A i \in DOMAIN queries' : queries'[i] = queries[i])]_vars

\* a Want that was sent to a peer which has disconnected since is not in the
\* message poll_peer makes for that peer of a second Want
C34_PolledAgainAfterDisconnect ==
    /\ DOMAIN queries = {0, 1}
    /\ queries[0].kind = "Want" /\ queries[1].kind = "Want"
    /\ last.op = "poll_peer"
    /\ last.num_queries = 1
    /\ \E p \in Peers :
          /\ last.ret.peer_id = p
          /\ <<0, p>> \in attached /\ <<1, p>> \in attached
          /\ p \notin SentSet(queries[0])
          /\ p \in SentSet(queries[1])

(***************************************************************************)
(* The queries poll_all leaves alone.                                      *)
(***************************************************************************)

\* C35: poll_all never reports a query in state New: the query it removes
\* and reports with Timeout is in state Sent and has been attached to a
\* message by poll_peer, and every query in state New stays registered as it
\* is, a Want or Cancel with no providers included.
C35_NewNeverReported ==
    [][poll_all =>
          /\ \A i \in Removed(queries, queries') :
                /\ last'.op = "poll_all" /\ last'.id = i
                /\ last'.ret.error = "Timeout"
                /\ IsSent(queries[i])
                /\ \E p \in Peers : <<i, p>> \in attached
          /\ \A i \in DOMAIN queries :
                queries[i].state = New
                   => (i \in DOMAIN queries' /\ queries'[i] = queries[i])]_vars

\* poll_all has reported a Want that was sent, and has left the Want that was
\* created with no providers
C35_EmptyWantLeft ==
    /\ last.op = "poll_all"
    /\ last.ret.kind = "Want"
    /\ \E j \in DOMAIN queries :
          /\ queries[j].kind = "Want"
          /\ queries[j].providers = {}
          /\ queries[j].state = New

(***************************************************************************)
(* The message poll_peer returns.                                          *)
(***************************************************************************)

\* C36: a NotifyHandler(p, m) that poll_peer returns has a non-empty m and
\* the polled peer as p; a poll_peer call that has counted a query has built
\* a non-empty message, so that it never ends in the branch "queries, but
\* message is empty": it returns a message exactly if it attaches a query.
C36_NotifyHandlerNeverEmpty ==
    [][\A p \in Peers :
          poll_peer(p) =>
             IF ToAttach(p) = {}
             THEN last' = Nothing
             ELSE /\ last'.op = "poll_peer"
                  /\ last'.ret.tag = "NotifyHandler"
                  /\ last'.ret.peer_id = p
                  /\ ~MsgIsEmpty(last'.ret.event)
                  /\ last'.num_queries = Cardinality(ToAttach(p))]_vars

\* poll_peer has made a message of a Send and a Want; the next poll_peer for
\* the peer finds the Send, which it removes without counting it
C36_BlockAndWantInOneMessage ==
    /\ last.op = "poll_peer"
    /\ last.num_queries = 2
    /\ last.ret.event.blocks # << >>
    /\ last.ret.event.wantlist # {}
    /\ \E i \in DOMAIN queries :
          queries[i].kind = "Send" /\ queries[i].state = Sent({last.ret.peer_id})

(***************************************************************************)
(* What goes with a peer that is forgotten.                                *)
(***************************************************************************)

\* C37: when a dial failure other than ConnectionLimit makes the Peer Table
\* forget a peer, what was pending for the peer is discarded with no event:
\* the step leaves the peer out of the table, queues nothing and changes no
\* other peer; the poll that follows hands out no message for the peer and
\* dials it not; and no event that is queued or handed out is a failure.
C37_ForgottenPeerDiscardedSilently ==
    /\ [][\A P \in Peers :
             inject_dial_failure(Some(P), "Other") =>
                /\ P \notin DOMAIN known_peers'
                /\ events' = events
                /\ \A q \in (DOMAIN known_peers) \ {P} :
                      q \in DOMAIN known_peers' /\ known_peers'[q] = known_peers[q]]_vars
    /\ [][(plast.op = "inject_dial_failure" /\ plast.error = "Other" /\ poll) =>
             /\ plast.peer \notin DOMAIN known_peers'
             /\ plast'.ret.tag \in {"NotifyHandler", "Dial"}
                   => plast'.ret.peer_id # plast.peer]_vars
    /\ [](\A k \in DOMAIN events :
             events[k].tag = "InboundRequest" \/ events[k].result = "Ok")
    /\ []((plast.op = "poll" /\ plast.ret.tag = "GenerateEvent") =>
             (plast.ret.event.tag = "InboundRequest" \/ plast.ret.event.result = "Ok"))

\* a peer that was being dialed for its pending message has been forgotten,
\* and no event is queued
C37_PendingMessageGone ==
    /\ plast.op = "inject_dial_failure"
    /\ plast.error = "Other"
    /\ plast.was = "Dialing"
    /\ plast.pending
    /\ plast.peer \notin DOMAIN known_peers
    /\ events = << >>

=============================================================================
